---- MODULE Spec2Model ----
(***************************************************************************)
(* Model of lock_me_out: the lockout session (LockOutManager), the         *)
(* schedule store (ScheduleManager) and the daemon loop (run_daemon).      *)
(*                                                                         *)
(* Time is in seconds, as in the code.  The clock only takes values that   *)
(* are multiples of Quantum (or the next midnight), so that the arithmetic *)
(* of the code is kept while the number of instants stays small.           *)
(* A calendar date is the day number now \div DaySeconds; it stands for    *)
(* the ISO date string the code stores.                                    *)
(***************************************************************************)
EXTENDS Integers, Sequences, FiniteSets, TLC

VARIABLES
    now,                  \* time.time(), seconds since day 0, 00:00
    clock_steps,          \* number of clock advances taken (bounded)
    managers,             \* LockOutManager objects, in order of construction
    threads,              \* enforcement threads, in order of creation
    pc,                   \* position of the daemon loop / of the caller
    current_manager,      \* run_daemon local: index into managers, 0 = None
    active_sched_id,      \* run_daemon local: "None", "instant" or a schedule id
    instant_lockout_data, \* run_daemon local: <<>> = None, or <<record>>
    new_manager,          \* run_daemon local: result of _process_commands
    new_id,               \* run_daemon local: result of _process_commands
    extra_data,           \* run_daemon local: <<>> = None, or <<record>>
    command_data,         \* _process_commands local: <<>> or <<[id, body: parsed payload]>>
    sm_schedules,         \* ScheduleManager.schedules (in-memory list)
    sm_mtime_seen,        \* _last_schedules_mtime equals the file's mtime
    schedules_file,       \* content of schedules.json (list of records)
    command_file,         \* <<>> = file absent, or <<[id, body, at]>>
    published,            \* what write_state last received: <<>> or <<active_info>>
    ncmds,                \* number of commands written so far (bounded)
    acted,                \* history: ids of commands acted upon, in order
    tick_cmd,             \* history: command consumed since the tick began
    stopped_on,           \* history: <<schedule id, date>> of persistent stops
    added_busy,           \* history: ids the CLI added while the daemon's Session
                          \* was WAITING or LOCKED
    nedits,               \* number of schedule operations issued so far (bounded)
    range_call,           \* arguments of a call of calculate_from_range
    range_result,         \* <<>> before the call returns, then what it returned
    store_call,           \* <<>>, or <<[op, id, result, before]>>: the last call of a
                          \* ScheduleManager method, its id argument, its result
    last_written_state,   \* utils/state.py _last_written_state: <<>> = None
    state_file,           \* content of the state file: <<>> = absent
    wait_run,             \* one run of _wait_initial_delay followed in seconds
    lock_run              \* one run of _perform_lockout followed in seconds

vars == <<now, clock_steps, managers, threads, pc, current_manager,
          active_sched_id, instant_lockout_data, new_manager, new_id,
          extra_data, command_data, sm_schedules, sm_mtime_seen,
          schedules_file, command_file, published, ncmds,
          acted, tick_cmd, stopped_on, added_busy, nedits, range_call,
          range_result,
          store_call, last_written_state, state_file, wait_run, lock_run>>

sessionVars == <<managers, threads>>
daemonLocals == <<current_manager, active_sched_id, instant_lockout_data,
                  new_manager, new_id, extra_data, command_data>>
storeVars == <<sm_schedules, sm_mtime_seen, schedules_file>>
historyVars == <<acted, tick_cmd, stopped_on, added_busy>>
callVars == <<range_call, range_result, store_call, last_written_state,
              state_file, wait_run, lock_run>>

----------------------------------------------------------------------------
(* Bounds of the model *)

MaxClockSteps == 2
MaxCommands == 1
MaxStarts == 2
MaxEdits == 3
MaxCliEdits == 1

(* the clock advances in steps of five minutes *)
Quantum == 5 * 60
DaySeconds == 24 * 60 * 60

(* settings *)
MAX_LOCKOUT_MINUTES == 10
notify_lead_minutes == 5

----------------------------------------------------------------------------
(* Clock *)

Today(t) == t \div DaySeconds

Advance ==
    /\ pc # "crashed"
    /\ clock_steps < MaxClockSteps
    /\ clock_steps' = clock_steps + 1
    /\ now' = now + Quantum
    /\ UNCHANGED <<managers, threads, pc, daemonLocals, storeVars,
                   command_file, published, ncmds, historyVars, nedits,
                   callVars>>

----------------------------------------------------------------------------
(* LockOutManager *)

Min(a, b) == IF a <= b THEN a ELSE b
Max(a, b) == IF a >= b THEN a ELSE b

\* LockOutManager.__init__
NewManager(delay, duration) ==
    [initial_delay_seconds |-> delay,
     lockout_duration_seconds |-> duration,
     stop_event |-> FALSE,
     thread |-> 0,
     running |-> FALSE,
     state |-> "IDLE",
     target_end_time |-> 0,
     blocked_apps |-> <<>>,
     block_only |-> FALSE,
     start_notification |-> <<>>]

\* LockOutManager.get_status
get_status(m, t) ==
    [state |-> m.state,
     time_remaining |-> IF m.state # "IDLE" /\ m.target_end_time > 0
                        THEN Max(0, m.target_end_time - t)
                        ELSE 0]

\* the thread object created by start(): positioned at the top of _run
NewThread(i) ==
    [mgr |-> i, pc |-> "wait_init", end_time |-> 0, sent |-> <<>>,
     notified_one_minute |-> FALSE, did |-> {}]

\* start() without the check of line 49
StartedManagersUnguarded(ms, ts, i, apps, only, notif) ==
    [ms EXCEPT ![i] = [@ EXCEPT !.blocked_apps = apps,
                                !.block_only = only,
                                !.start_notification = notif,
                                !.stop_event = FALSE,
                                !.running = TRUE,
                                !.state = "WAITING",
                                !.thread = Len(ts) + 1]]

\* LockOutManager.start on managers[i]; ms, ts are the objects before the call
StartedManagers(ms, ts, i, apps, only, notif) ==
    IF ms[i].running
    THEN ms
    ELSE [ms EXCEPT ![i] = [@ EXCEPT !.blocked_apps = apps,
                                     !.block_only = only,
                                     !.start_notification = notif,
                                     !.stop_event = FALSE,
                                     !.running = TRUE,
                                     !.state = "WAITING",
                                     !.thread = Len(ts) + 1]]

StartedThreads(ms, ts, i) ==
    IF ms[i].running THEN ts ELSE Append(ts, NewThread(i))

Alive(k) == threads[k].pc # "dead"

\* LockOutManager.stop, line 70: stop() returns at once when not running
StopProceeds(ms, i) == ms[i].running

\* stop() that sets the event without the check of line 70
StopSignalledUnguarded(ms, i) == [ms EXCEPT ![i].stop_event = TRUE]

\* lines 70-74: the cancellation signal
StopSignalled(ms, i) ==
    IF ms[i].running THEN [ms EXCEPT ![i].stop_event = TRUE] ELSE ms

\* line 75-76: join(timeout=2.0) returns when the thread is dead, or on timeout
JoinReturns(i) ==
    \/ managers[i].thread = 0
    \/ ~Alive(managers[i].thread)
    \/ Alive(managers[i].thread)      \* the join timed out

\* line 77
StopCleared(ms, i) == [ms EXCEPT ![i].running = FALSE]

\* stop() that leaves the phase to the thread
StopResetByThread(ms, i) == ms

\* line 78
StopReset(ms, i) == [ms EXCEPT ![i].state = "IDLE"]

----------------------------------------------------------------------------
(* The enforcement thread: LockOutManager._run *)

\* _wait_initial_delay without lines 98-99
ThreadWaitInitSilent(k) ==
    /\ threads[k].pc = "wait_init"
    /\ threads' = [threads EXCEPT ![k].pc = "wait_enter"]
    /\ UNCHANGED managers

\* _wait_initial_delay, lines 98-99: the start notification, a call that may
\* take arbitrarily long
ThreadWaitInit(k) ==
    LET i == threads[k].mgr IN
    /\ threads[k].pc = "wait_init"
    /\ threads' = [threads EXCEPT
                      ![k].pc = "wait_enter",
                      ![k].sent = IF managers[i].start_notification # <<>>
                                  THEN Append(@, "start") ELSE @]
    /\ UNCHANGED managers

\* _wait_initial_delay, lines 103-107: the WAITING phase is entered
ThreadWaitEnter(k) ==
    LET i == threads[k].mgr IN
    /\ threads[k].pc = "wait_enter"
    /\ managers' = [managers EXCEPT
                      ![i].state = "WAITING",
                      ![i].target_end_time = now + managers[i].initial_delay_seconds]
    /\ threads' = [threads EXCEPT
                      ![k].pc = "wait_loop",
                      ![k].end_time = now + managers[i].initial_delay_seconds]

\* the second at which the remaining time of the wait is one minute
OneMinuteWindow == 60

\* _wait_initial_delay, lines 110-116: a pass of the loop that finds the
\* remaining time in the one-minute window; the clock of this model does not
\* stop inside the window, the pass is one that happened before the next
\* instant
ThreadWaitNotify(k) ==
    /\ threads[k].pc = "wait_loop"
    /\ ~threads[k].notified_one_minute
    /\ threads[k].end_time - now > OneMinuteWindow
    /\ threads' = [threads EXCEPT
                      ![k].sent = Append(@, "one_minute"),
                      ![k].notified_one_minute = TRUE]
    /\ UNCHANGED managers

\* _wait_initial_delay, lines 109-124: the loop ends when the delay is over
\* or when the stop event wakes the wait
ThreadWaitLoop(k) ==
    LET i == threads[k].mgr IN
    /\ threads[k].pc = "wait_loop"
    /\ \/ now >= threads[k].end_time
       \/ managers[i].stop_event
    /\ threads' = [threads EXCEPT ![k].pc = "run_check"]
    /\ UNCHANGED managers

\* _run, lines 85-86
ThreadRunCheck(k) ==
    LET i == threads[k].mgr IN
    /\ threads[k].pc = "run_check"
    /\ threads' = [threads EXCEPT
                      ![k].pc = IF managers[i].stop_event
                                THEN "finally_running" ELSE "lock_init"]
    /\ UNCHANGED managers

\* _perform_lockout, lines 128-132
ThreadLockInit(k) ==
    LET i == threads[k].mgr IN
    /\ threads[k].pc = "lock_init"
    /\ managers' = [managers EXCEPT
                      ![i].state = "LOCKED",
                      ![i].target_end_time = now + managers[i].lockout_duration_seconds]
    /\ threads' = [threads EXCEPT
                      ![k].pc = "lock_loop",
                      ![k].end_time = now + managers[i].lockout_duration_seconds]

\* _perform_lockout, lines 134-136: the loop ends when the duration is over;
\* a pass begins with the check of the stop event.  `did` holds the requests
\* made in the current pass
ThreadLockLoop(k) ==
    LET i == threads[k].mgr IN
    /\ threads[k].pc = "lock_loop"
    /\ threads' = [threads EXCEPT
                      ![k].pc = IF now >= threads[k].end_time THEN "lock_done"
                                ELSE IF managers[i].stop_event
                                THEN "finally_running" ELSE "lock_body",
                      ![k].did = {}]
    /\ UNCHANGED managers

\* the requests of a pass that does not look at block_only
PassRequestsLockAlways(m, locked_first, locked_then) ==
    (IF m.blocked_apps # <<>> THEN {"kill"} ELSE {})
    \cup (IF ~locked_first THEN {"lock"} ELSE {})
    \cup (IF locked_then THEN {"wait_unlock"} ELSE {})

\* the requests of one pass, lines 139-152: kill_processes when there are
\* blocked apps; lock_screen when not block-only and the screen is not locked
\* (first answer of is_screen_locked); wait_for_unlock when not block-only and
\* the screen is locked (second answer)
PassRequests(m, locked_first, locked_then) ==
    (IF m.blocked_apps # <<>> THEN {"kill"} ELSE {})
    \cup (IF ~m.block_only /\ ~locked_first THEN {"lock"} ELSE {})
    \cup (IF ~m.block_only /\ locked_then THEN {"wait_unlock"} ELSE {})

\* _perform_lockout, lines 139-156: the requests of the pass; then
\* wait_for_unlock returns, or the wait of two seconds ends, with a return when
\* the stop event is set
ThreadLockBody(k) ==
    LET i == threads[k].mgr IN
    /\ threads[k].pc = "lock_body"
    /\ \E locked_first \in BOOLEAN, locked_then \in BOOLEAN :
          LET did == PassRequests(managers[i], locked_first, locked_then) IN
          threads' = [threads EXCEPT
                         ![k].did = did,
                         ![k].pc = IF "wait_unlock" \notin did /\ managers[i].stop_event
                                   THEN "finally_running" ELSE "lock_loop"]
    /\ UNCHANGED managers

\* _perform_lockout, line 158: the stop event is looked at once more
ThreadLockDone(k) ==
    LET i == threads[k].mgr IN
    /\ threads[k].pc = "lock_done"
    /\ threads' = [threads EXCEPT
                      ![k].pc = IF ~managers[i].stop_event
                                THEN "lock_notify" ELSE "finally_running"]
    /\ UNCHANGED managers

\* _perform_lockout, lines 159-160: the "Lockout Finished" notification
ThreadLockNotify(k) ==
    /\ threads[k].pc = "lock_notify"
    /\ threads' = [threads EXCEPT
                      ![k].pc = "finally_running",
                      ![k].sent = Append(@, "finished")]
    /\ UNCHANGED managers

\* _run, line 93
ThreadFinallyRunning(k) ==
    LET i == threads[k].mgr IN
    /\ threads[k].pc = "finally_running"
    /\ managers' = [managers EXCEPT ![i].running = FALSE]
    /\ threads' = [threads EXCEPT ![k].pc = "finally_state"]

\* _run, line 94
ThreadFinallyState(k) ==
    LET i == threads[k].mgr IN
    /\ threads[k].pc = "finally_state"
    /\ managers' = [managers EXCEPT ![i].state = "IDLE"]
    /\ threads' = [threads EXCEPT ![k].pc = "dead"]

ThreadFrame ==
    UNCHANGED <<now, clock_steps, pc, daemonLocals, storeVars, command_file,
                published, ncmds, historyVars, nedits, callVars>>

ThreadStep ==
    /\ pc # "crashed"
    /\ \E k \in 1..Len(threads) :
          \/ ThreadWaitInit(k)
          \/ ThreadWaitEnter(k)
          \/ ThreadWaitNotify(k)
          \/ ThreadWaitLoop(k)
          \/ ThreadRunCheck(k)
          \/ ThreadLockInit(k)
          \/ ThreadLockLoop(k)
          \/ ThreadLockBody(k)
          \/ ThreadLockDone(k)
          \/ ThreadLockNotify(k)
          \/ ThreadFinallyRunning(k)
          \/ ThreadFinallyState(k)
    /\ ThreadFrame

----------------------------------------------------------------------------
(* utils/time.py *)

Digits == <<"0", "1", "2", "3", "4", "5", "6", "7", "8", "9">>
IsDigit(c) == \E d \in 1..10 : Digits[d] = c
DigitVal(c) == (CHOOSE d \in 1..10 : Digits[d] = c) - 1

\* str.lower() on the characters that occur in a time string
Lower(c) == CASE c = "A" -> "a" [] c = "P" -> "p" [] c = "M" -> "m" [] OTHER -> c

\* time_str.lower().replace(" ", "")
CleanTime(str) ==
    LET kept == SelectSeq(str, LAMBDA c : c # " ")
    IN  [j \in 1..Len(kept) |-> Lower(kept[j])]

\* a field of one or two digits, as strptime reads %H, %I, %M and %S
IsNumber(f) == Len(f) \in {1, 2} /\ \A j \in 1..Len(f) : IsDigit(f[j])
NumberOf(f) == IF Len(f) = 1 THEN DigitVal(f[1])
               ELSE 10 * DigitVal(f[1]) + DigitVal(f[2])

\* the fields of a string separated by ":"
RECURSIVE SplitColon(_)
SplitColon(str) ==
    IF \A j \in 1..Len(str) : str[j] # ":"
    THEN <<str>>
    ELSE LET p == CHOOSE j \in 1..Len(str) :
                     str[j] = ":" /\ \A h \in 1..(j - 1) : str[h] # ":"
         IN  <<SubSeq(str, 1, p - 1)>> \o SplitColon(SubSeq(str, p + 1, Len(str)))

HasMeridiem(str) ==
    /\ Len(str) >= 2
    /\ str[Len(str)] = "m"
    /\ str[Len(str) - 1] \in {"a", "p"}

\* hour of the day of a 12-hour clock value, as %I with %p
Hour12(h, mer) == (h % 12) + (IF mer = "p" THEN 12 ELSE 0)

ParseError == 0 - 1

\* the formats "%I%p", "%I:%M%p", "%H:%M", "%H:%M:%S" tried on the fields f
\* of the string; mer says that it ends in am/pm, ap is the "a" or "p"
ParseFields(f, mer, ap) ==
    IF \E j \in 1..Len(f) : ~IsNumber(f[j]) THEN ParseError
    ELSE IF mer /\ Len(f) = 1 /\ NumberOf(f[1]) \in 1..12
    THEN Hour12(NumberOf(f[1]), ap) * 3600
    ELSE IF mer /\ Len(f) = 2 /\ NumberOf(f[1]) \in 1..12
            /\ NumberOf(f[2]) \in 0..59
    THEN Hour12(NumberOf(f[1]), ap) * 3600 + NumberOf(f[2]) * 60
    ELSE IF ~mer /\ Len(f) = 2 /\ NumberOf(f[1]) \in 0..23
            /\ NumberOf(f[2]) \in 0..59
    THEN NumberOf(f[1]) * 3600 + NumberOf(f[2]) * 60
    ELSE IF ~mer /\ Len(f) = 3 /\ NumberOf(f[1]) \in 0..23
            /\ NumberOf(f[2]) \in 0..59 /\ NumberOf(f[3]) \in 0..59
    THEN NumberOf(f[1]) * 3600 + NumberOf(f[2]) * 60 + NumberOf(f[3])
    ELSE ParseError

ParseClean(str) ==
    IF HasMeridiem(str)
    THEN ParseFields(SplitColon(SubSeq(str, 1, Len(str) - 2)), TRUE,
                     str[Len(str) - 1])
    ELSE ParseFields(SplitColon(str), FALSE, "")

\* parse_time_string: the time of day in seconds, ParseError for ValueError
parse_time_string(time_str) == ParseClean(CleanTime(time_str))

\* a difference of times rounded to the nearest second instead of truncated
WholeSecondsRounded(s, h) == (2 * s - h + 1) \div 2

\* int(timedelta.total_seconds()) of the time from instant h to the whole
\* second s, h in half seconds: `now` is not a whole number of seconds
WholeSecondsUntil(s, h) == (2 * s - h) \div 2

\* an end that is never moved to the next day
EndOfRangeSameDay(start_dt, end0) == end0

\* lines 51-52: an end that is not after the start is an end on the next day
EndOfRange(start_dt, end0) ==
    IF end0 <= start_dt THEN end0 + DaySeconds ELSE end0

\* the remaining duration without the floor of one second
RemainingUnfloored(end_dt, h) == WholeSecondsUntil(end_dt, h)

\* line 60: the duration that remains of a range that has begun
Remaining(end_dt, h) == Max(1, WholeSecondsUntil(end_dt, h))

\* calculate_from_range, lines 46-72, on parsed times of day (seconds); h is
\* `now` in half seconds since day 0, 00:00.
\* Returns <<delay_seconds, duration_seconds, total_duration_seconds>>.
RangeAt(start_tod, end_tod, h) ==
    LET day == (h \div (2 * DaySeconds)) * DaySeconds
        start_dt == day + start_tod
        end0 == day + end_tod
        end_dt == EndOfRange(start_dt, end0)
        total == end_dt - start_dt
    IN  IF 2 * start_dt < h /\ 2 * end_dt > h
        THEN <<0, Remaining(end_dt, h), total>>
        ELSE IF 2 * start_dt >= h
        THEN <<WholeSecondsUntil(start_dt, h), total, total>>
        ELSE <<WholeSecondsUntil(start_dt + DaySeconds, h), total, total>>

\* calculate_from_range at a whole second t, the instants of the model's clock
RangeFrom(start_tod, end_tod, t) == RangeAt(start_tod, end_tod, 2 * t)

\* calculate_from_range raises ValueError when a string does not parse
RangeParses(start_str, end_str) ==
    /\ parse_time_string(start_str) # ParseError
    /\ parse_time_string(end_str) # ParseError

calculate_from_range(start_str, end_str, t) ==
    RangeFrom(parse_time_string(start_str), parse_time_string(end_str), t)

\* calculate_from_range(start_str, end_str, now) with `now` in half seconds:
\* the tuple it returns, or <<ParseError>> when it raises ValueError
calculate_from_range_at(start_str, end_str, h) ==
    IF RangeParses(start_str, end_str)
    THEN RangeAt(parse_time_string(start_str), parse_time_string(end_str), h)
    ELSE <<ParseError>>

----------------------------------------------------------------------------
(* ScheduleManager *)

\* A schedule id is a uuid.UUID in memory and its string form in the JSON
\* file, in the command file and in active_sched_id.  "UUID(A)" stands for
\* the UUID object whose string form is "A".
IdStrings == <<"A", "B", "C", "D", "E", "F", "G">>
IdObjects == <<"UUID(A)", "UUID(B)", "UUID(C)", "UUID(D)", "UUID(E)", "UUID(F)",
               "UUID(G)">>

\* str(x): the string form of a UUID, a string itself
Str(x) ==
    IF \E n \in 1..Len(IdObjects) : IdObjects[n] = x
    THEN IdStrings[CHOOSE n \in 1..Len(IdObjects) : IdObjects[n] = x]
    ELSE x

\* pydantic's validation of the id field: the UUID of a string form
UUID(x) ==
    IF \E n \in 1..Len(IdStrings) : IdStrings[n] = x
    THEN IdObjects[CHOOSE n \in 1..Len(IdStrings) : IdStrings[n] = x]
    ELSE x

\* the skipped_dates field of a stored schedule: a list of dates
NoSkippedDates == <<>>

\* schema.LockSchedule
LockSchedule(id, start_time, end_time, persist, apps, only) ==
    [id |-> id, start_time |-> start_time, end_time |-> end_time,
     enabled |-> TRUE, persist |-> persist, blocked_apps |-> apps,
     block_only |-> only, skipped_dates |-> NoSkippedDates]

InSeq(x, list) == \E j \in 1..Len(list) : list[j] = x

\* save_schedules, lines 196-201: model_dump(mode="json") of every schedule
Dumped(list) == [j \in 1..Len(list) |-> [list[j] EXCEPT !.id = Str(@)]]

\* _load_schedules, lines 185-187: json.load and LockSchedule(**s) succeed
\* when every entry has the required fields
Parses(file) ==
    \A j \in 1..Len(file) : {"start_time", "end_time"} \subseteq DOMAIN file[j]

\* the list LockSchedule(**s) builds from a file that parses
Parsed(file) == [j \in 1..Len(file) |-> [file[j] EXCEPT !.id = UUID(@)]]

\* a save that misses the schedule appended last
DumpedBeforeAppend(list) ==
    [j \in 1..(Len(list) - 1) |-> [list[j] EXCEPT !.id = Str(@)]]

\* save_schedules, lines 196-201: the content written to the file
save_schedules(list) == Dumped(list)

\* ScheduleManager.add_schedule, lines 215-223: the list with the new schedule,
\* whose id is the fresh UUID id
add_schedule(list, id, start_time, end_time, persist) ==
    Append(list, LockSchedule(id, start_time, end_time, persist, <<>>, FALSE))

\* ScheduleManager.update_schedule: the first schedule with the id of
\* `schedule` is replaced by it
update_schedule(list, schedule) ==
    LET hits == {j \in 1..Len(list) : list[j].id = schedule.id}
    IN  IF hits = {} THEN list
        ELSE [list EXCEPT ![CHOOSE j \in hits : \A h \in hits : j <= h] = schedule]

\* a removal that compares the stored id with the argument as given
remove_schedule_as_given(list, schedule_id) ==
    SelectSeq(list, LAMBDA sch : sch.id # schedule_id)

\* ScheduleManager.remove_schedule: the list that is kept and saved
remove_schedule(list, schedule_id) ==
    SelectSeq(list, LAMBDA sch : Str(sch.id) # Str(schedule_id))

\* ScheduleManager.skip_schedule_today: the first schedule with that id that
\* does not have today's date gets it appended
SkipIndex(list, schedule_id, today) ==
    LET hits == {j \in 1..Len(list) :
                    /\ Str(list[j].id) = Str(schedule_id)
                    /\ ~InSeq(today, list[j].skipped_dates)}
    IN  IF hits = {} THEN 0 ELSE CHOOSE j \in hits : \A h \in hits : j <= h

\* a skip that is never recorded
skip_schedule_today_lost(list, schedule_id, today) == list

skip_schedule_today(list, schedule_id, today) ==
    LET j == SkipIndex(list, schedule_id, today)
    IN  IF j = 0 THEN list
        ELSE [list EXCEPT ![j].skipped_dates = Append(@, today)]

\* list.sort(key=lambda x: x[1]): stable insertion by delay
RECURSIVE InsertByDelay(_, _)
InsertByDelay(sorted, c) ==
    IF sorted = <<>> THEN <<c>>
    ELSE IF sorted[Len(sorted)][2] <= c[2] THEN Append(sorted, c)
    ELSE Append(InsertByDelay(SubSeq(sorted, 1, Len(sorted) - 1), c),
                sorted[Len(sorted)])

RECURSIVE SortByDelay(_)
SortByDelay(cands) ==
    IF cands = <<>> THEN <<>>
    ELSE InsertByDelay(SortByDelay(SubSeq(cands, 1, Len(cands) - 1)),
                       cands[Len(cands)])

\* a filter that ignores skipped_dates
IsCandidateSkippedToo(sch, t) ==
    /\ sch.enabled
    /\ RangeParses(sch.start_time, sch.end_time)

\* the filter of check_schedules
IsCandidate(sch, t) ==
    /\ sch.enabled
    /\ ~InSeq(Today(t), sch.skipped_dates)
    /\ RangeParses(sch.start_time, sch.end_time)

\* a candidate of check_schedules: <<schedule, delay, duration, total>>
WithRange(sch, r) == <<sch, r[1], r[2], r[3]>>

Candidates(kept, t) ==
    [j \in 1..Len(kept) |->
        WithRange(kept[j],
                  calculate_from_range(kept[j].start_time, kept[j].end_time, t))]

\* a check_schedules that a failing calculation ends: nothing is returned
check_schedules_fatal(list, t) ==
    IF \E j \in 1..Len(list) :
          ~RangeParses(list[j].start_time, list[j].end_time)
    THEN <<>>
    ELSE SortByDelay(Candidates(SelectSeq(list, LAMBDA sch : IsCandidate(sch, t)), t))

\* ScheduleManager.check_schedules
check_schedules(list, t) ==
    SortByDelay(Candidates(SelectSeq(list, LAMBDA sch : IsCandidate(sch, t)), t))

----------------------------------------------------------------------------
(* The command channel and its writers *)

\* dict.get(key, default) on a field of the command; Absent = key not present
Absent == 0 - 1
Get(v, default) == IF v = Absent THEN default ELSE v

Payload(kind, command, delay, duration, bad, sid, persistent) ==
    [kind |-> kind, command |-> command, delay_mins |-> delay,
     duration_mins |-> duration, bad_field |-> bad, blocked_apps |-> <<"nvim">>,
     block_only |-> TRUE, schedule_id |-> sid, is_persistent |-> persistent]

\* cli.instant: the command it writes
StartInstantPayloads ==
    {Payload("object", "start_instant", 0, 5, "None", "None", FALSE),
     Payload("object", "start_instant", 0, 15, "None", "None", FALSE)}

\* a stop request: {command: "stop_lockout", schedule_id, is_persistent}
StopPayloads ==
    {Payload("object", "stop_lockout", Absent, Absent, "None", "A", TRUE),
     Payload("object", "stop_lockout", Absent, Absent, "None", "A", FALSE),
     Payload("object", "stop_lockout", Absent, Absent, "None", "B", TRUE)}

\* payloads that are not a well-formed command: text that is not JSON, JSON
\* that is not an object, an unknown command name, a field holding null
\* where a number is expected
MalformedPayloads ==
    {Payload("invalid_json", "None", Absent, Absent, "None", "None", FALSE),
     Payload("not_object", "None", Absent, Absent, "None", "None", FALSE),
     Payload("object", "bogus", Absent, Absent, "None", "None", FALSE),
     Payload("object", "start_instant", 0, 5, "delay_mins", "None", FALSE),
     Payload("object", "start_instant", 0, 5, "duration_mins", "None", FALSE)}

IsMalformed(p) == p \in MalformedPayloads

\* cli.instant, line 131: the age in seconds beyond which a pending command
\* file is removed by the next writer
StaleSeconds == 30

\* cli.instant, lines 128-163: a command is written when none is pending, or
\* by cli.instant in place of one older than StaleSeconds; `at` is the mtime
\* of the file
WriteCommand ==
    /\ pc # "crashed"
    /\ ncmds < MaxCommands
    /\ \E p \in StartInstantPayloads \cup StopPayloads \cup MalformedPayloads :
          /\ \/ command_file = <<>>
             \/ /\ command_file # <<>>
                /\ p \in StartInstantPayloads
                /\ now - command_file[1].at > StaleSeconds
          /\ command_file' = <<[id |-> ncmds + 1, body |-> p, at |-> now]>>
    /\ ncmds' = ncmds + 1
    /\ UNCHANGED <<now, clock_steps, managers, threads, pc, daemonLocals,
                   storeVars, published, historyVars, nedits, callVars>>

----------------------------------------------------------------------------
(* daemon._process_commands *)

DaemonFrame == UNCHANGED <<now, clock_steps, ncmds, nedits, callVars>>

\* a read that leaves the command file in place
FileAfterReadKept(file) == file

\* what is left in the command file once the read is over (lines 29-35)
FileAfterRead(file) == <<>>

\* the parsed content of the command file, with the time of the read
Read(cmd, t) == [id |-> cmd.id, body |-> cmd.body, at |-> cmd.at, read_at |-> t]

\* run_daemon line 85 and _process_commands lines 23-35: without a command
\* file the result is (None, None, None); otherwise the file is read, parsed
\* and removed, and a parse error gives (None, None, None) as well
DaemonTick ==
    /\ pc = "tick"
    /\ IF command_file = <<>>
       THEN /\ pc' = "sched"
            /\ tick_cmd' = "None"
            /\ UNCHANGED <<command_data, command_file>>
       ELSE /\ command_file' = FileAfterRead(command_file)
            /\ IF command_file[1].body.kind = "invalid_json"
               THEN /\ command_data' = <<>>
                    /\ tick_cmd' = "malformed"
                    /\ pc' = "sched"
               ELSE /\ command_data' = <<Read(command_file[1], now)>>
                    /\ tick_cmd' = "None"
                    /\ pc' = "cmd_act"
    /\ new_manager' = 0
    /\ new_id' = "None"
    /\ extra_data' = <<>>
    /\ UNCHANGED <<managers, threads, current_manager, active_sched_id,
                   instant_lockout_data, storeVars, published, acted, stopped_on,
                   added_busy>>
    /\ DaemonFrame

\* the exceptions the lines 37-47 raise on a parsed payload: .get on a value
\* that is no dict (line 37), None * 60 (line 46), min(None, number) (line 47)
ActRaises(p) ==
    \/ p.kind = "not_object"
    \/ p.command = "start_instant" /\ p.bad_field # "None"

\* the duration the command asks for
InstantDurationAsAsked(p) == Get(p.duration_mins, 10) * 60

\* min(duration_mins, settings.MAX_LOCKOUT_MINUTES) * 60
InstantDuration(p) == Min(Get(p.duration_mins, 10), MAX_LOCKOUT_MINUTES) * 60

\* run_daemon lines 202-206: an exception leaves the loop through the finally
\* block, which stops the bound manager, and the process ends with its threads
Terminated(ms, cm) ==
    IF cm # 0 /\ StopProceeds(ms, cm)
    THEN StopReset(StopCleared(StopSignalled(ms, cm), cm), cm)
    ELSE ms

\* _process_commands lines 37-65; for a stop request also run_daemon lines
\* 87-92 with stop() lines 70-74: the bound manager is signalled.  No handler
\* catches what lines 37-59 raise: the exception ends run_daemon.
CmdAct ==
    /\ pc = "cmd_act"
    /\ LET p == command_data[1].body IN
       /\ acted' = Append(acted, command_data[1].id)
       /\ IF ActRaises(p)
          THEN /\ pc' = "crashed"
               /\ tick_cmd' = "malformed"
               /\ managers' = Terminated(managers, current_manager)
               /\ published' = <<>>               \* cleanup_state
               /\ UNCHANGED <<threads, new_manager, new_id, extra_data>>
          ELSE IF p.command = "start_instant"
          THEN LET fresh == Append(managers,
                                   NewManager(Get(p.delay_mins, 30) * 60,
                                              InstantDuration(p)))
                   i == Len(managers) + 1
               IN  /\ managers' = StartedManagers(fresh, threads, i,
                                      p.blocked_apps,
                                      p.block_only, <<>>)
                   /\ threads' = StartedThreads(fresh, threads, i)
                   /\ new_manager' = i
                   /\ new_id' = "instant"
                   /\ extra_data' =
                         <<[duration_mins |-> Min(Get(p.duration_mins, 10),
                                                  MAX_LOCKOUT_MINUTES),
                            block_only |-> p.block_only,
                            blocked_apps |-> p.blocked_apps]>>
                   /\ tick_cmd' = "start_instant"
                   /\ pc' = "sched"
                   /\ UNCHANGED published
          ELSE IF p.command = "stop_lockout"
          THEN /\ new_manager' = 0
               /\ new_id' = "stop_request"
               /\ extra_data' = <<p>>
               /\ tick_cmd' = "stop_lockout"
               /\ IF current_manager # 0
                  THEN /\ managers' = StopSignalled(managers, current_manager)
                       /\ pc' = IF StopProceeds(managers, current_manager)
                                THEN "stop_join" ELSE "stop_skip"
                  ELSE /\ UNCHANGED managers
                       /\ pc' = "stop_skip"
               /\ UNCHANGED <<threads, published>>
          ELSE /\ new_manager' = 0
               /\ new_id' = "None"
               /\ extra_data' = <<>>
               /\ tick_cmd' = "malformed"
               /\ pc' = "sched"
               /\ UNCHANGED <<managers, threads, published>>
    /\ command_data' = <<>>
    /\ UNCHANGED <<current_manager, active_sched_id, instant_lockout_data,
                   storeVars, command_file, stopped_on, added_busy>>
    /\ DaemonFrame

----------------------------------------------------------------------------
(* run_daemon: the stop request, lines 87-107 *)

StopFrame ==
    UNCHANGED <<threads, daemonLocals, storeVars, command_file, published,
                historyVars>>

\* stop() line 75-76 as called from line 92
DaemonStopJoin ==
    /\ pc = "stop_join"
    /\ JoinReturns(current_manager)
    /\ pc' = "stop_finish"
    /\ UNCHANGED managers
    /\ StopFrame
    /\ DaemonFrame

\* run_daemon lines 106-107 and 201: the tick is over.  new_manager, new_id
\* and extra_data are not read again before line 85 assigns them.
EndOfTick ==
    /\ new_manager' = 0
    /\ new_id' = "None"
    /\ extra_data' = <<>>

\* the schedule list after lines 94-98
SkippedAfterStop(list, cm, extra, today) ==
    IF cm # 0 /\ extra.is_persistent /\ extra.schedule_id # "None"
    THEN skip_schedule_today(list, extra.schedule_id, today)
    ELSE list

\* a stop branch without the `continue` of line 107
AfterStopFallThrough == "sched"

\* where the loop goes after line 104: sleep and `continue`
AfterStop == "tick"

\* stop() lines 77-78 when the join is over ("stop_finish"; "stop_skip" is
\* a stop() that returned at line 71, or no manager), then run_daemon lines
\* 94-107: skip a persistent schedule for today, drop the manager, sleep and
\* re-tick
DaemonStopFinish ==
    /\ pc \in {"stop_finish", "stop_skip"}
    /\ managers' = IF pc = "stop_finish"
                   THEN StopReset(StopCleared(managers, current_manager),
                                  current_manager)
                   ELSE managers
    /\ LET after == SkippedAfterStop(sm_schedules, current_manager,
                                     extra_data[1], Today(now))
       IN  /\ sm_schedules' = after
           /\ IF after # sm_schedules
              THEN /\ schedules_file' = save_schedules(after)
                   /\ sm_mtime_seen' = FALSE
              ELSE UNCHANGED <<schedules_file, sm_mtime_seen>>
           /\ stopped_on' =
                 IF /\ current_manager # 0
                    /\ extra_data[1].is_persistent
                    /\ extra_data[1].schedule_id = active_sched_id
                    /\ \E j \in 1..Len(sm_schedules) :
                          /\ Str(sm_schedules[j].id) = active_sched_id
                          /\ sm_schedules[j].persist
                 THEN stopped_on \cup {<<active_sched_id, Today(now)>>}
                 ELSE stopped_on
    /\ current_manager' = 0
    /\ pc' = AfterStop
    /\ EndOfTick
    /\ UNCHANGED <<threads, active_sched_id, instant_lockout_data,
                   command_data, command_file, published, acted, tick_cmd,
                   added_busy>>
    /\ DaemonFrame

----------------------------------------------------------------------------
(* run_daemon: schedule and state processing, lines 109-166 *)

\* line 110-112
IsIdle(cm, ms) == cm = 0 \/ get_status(ms[cm], now).state = "IDLE"

\* a clean-up that removes the finished schedule whatever its persist flag
RemovesFinishedAlways(sch) == TRUE

\* line 122: the finished schedule is removed when it is not persistent
RemovesFinished(sch) == ~sch.persist

\* a clean-up that never removes the finished schedule
ClearedSchedulesKept(list, active) == list

\* lines 116-127: the schedule list after the finished session is cleared
ClearedSchedules(list, active) ==
    LET hits == {j \in 1..Len(list) : Str(list[j].id) = active}
        finished_sched == CHOOSE j \in hits : \A h \in hits : j <= h
    IN  IF active \notin {"None", "instant"} /\ hits # {}
           /\ RemovesFinished(list[finished_sched])
        THEN remove_schedule(list, list[finished_sched].id)
        ELSE list

\* ScheduleManager._load_schedules: reload when the file's mtime has changed
LoadedSchedules(list, seen, file) ==
    IF seen \/ ~Parses(file) THEN list ELSE Parsed(file)

\* _last_schedules_mtime after _load_schedules: line 188 is not reached when
\* the load fails
LoadedSeen(seen, file) == seen \/ Parses(file)

\* line 146 without the buffer of 30 seconds
IsDueWithinLead(cands) ==
    /\ cands # <<>>
    /\ cands[1][2] < notify_lead_minutes * 60

\* line 146: the nearest candidate is within the lead time plus 30 seconds
IsDue(cands) ==
    /\ cands # <<>>
    /\ cands[1][2] < notify_lead_minutes * 60 + 30

\* lines 151-156
StartNotification(sch) ==
    <<"Lockout in 5 minutes", <<"A scheduled lockout will start at", sch.start_time>>>>

\* an idle branch that looks at the schedules first
IdleBranchScheduleFirst(nm) == "schedule"

\* which of lines 133-166 runs when the daemon is idle: "instant" binds the
\* manager of a start_instant command, "schedule" looks for a due schedule
IdleBranch(nm) == IF nm # 0 THEN "instant" ELSE "schedule"

\* lines 157-166: a manager for the schedule of candidate c is made and started
StartSchedule(c) ==
    /\ managers' = StartedManagers(
                      Append(managers,
                             NewManager(c[2], Min(c[3], MAX_LOCKOUT_MINUTES * 60))),
                      threads, Len(managers) + 1,
                      c[1].blocked_apps, c[1].block_only, StartNotification(c[1]))
    /\ threads' = Append(threads, NewThread(Len(managers) + 1))
    /\ current_manager' = Len(managers) + 1
    /\ active_sched_id' = Str(c[1].id)

\* lines 139-166 on the candidates of the reloaded list
CheckCandidates(cands) ==
    IF IsDue(cands)
    THEN StartSchedule(cands[1])
    ELSE /\ current_manager' = IF active_sched_id # "None" THEN 0 ELSE current_manager
         /\ active_sched_id' = "None"
         /\ UNCHANGED <<managers, threads>>

\* lines 114-166 when idle; cleared is the list after lines 116-127, file and
\* seen are the schedule file and the mtime mark after them
IdleStep(cleared, file, seen) ==
    /\ schedules_file' = file
    /\ IF IdleBranch(new_manager) = "instant"
       THEN /\ current_manager' = new_manager
            /\ active_sched_id' = new_id
            /\ instant_lockout_data' = extra_data
            /\ sm_schedules' = cleared
            /\ sm_mtime_seen' = seen
            /\ UNCHANGED <<managers, threads>>
       ELSE /\ sm_schedules' = LoadedSchedules(cleared, seen, file)
            /\ sm_mtime_seen' = LoadedSeen(seen, file)
            /\ instant_lockout_data' = <<>>
            /\ CheckCandidates(check_schedules(LoadedSchedules(cleared, seen, file),
                                               now))

\* the list after lines 116-127 differs from the list before: it was saved
IdleStepAfterClear(cleared) ==
    IF cleared # sm_schedules
    THEN IdleStep(cleared, save_schedules(cleared), FALSE)
    ELSE IdleStep(cleared, schedules_file, sm_mtime_seen)

DaemonSched ==
    /\ pc = "sched"
    /\ IF IsIdle(current_manager, managers)
       THEN IdleStepAfterClear(ClearedSchedules(sm_schedules, active_sched_id))
       ELSE UNCHANGED <<managers, threads, current_manager, active_sched_id,
                        instant_lockout_data, storeVars>>
    /\ pc' = "publish"
    /\ UNCHANGED <<new_manager, new_id, extra_data, command_data, command_file,
                   published, historyVars>>
    /\ DaemonFrame

\* a snapshot that reports instant Sessions only
ActiveInfoOfInstantOnly(status, active, inst, list) ==
    IF active = "instant" /\ inst # <<>>
    THEN <<[source |-> "instant", schedule_id |-> "None",
            current_phase |-> status.state,
            remaining_secs |-> status.time_remaining]>>
    ELSE <<>>

\* lines 171-198: the snapshot built from the status read at line 171
ActiveInfoOf(status, active, inst, list) ==
    IF active = "instant" /\ inst # <<>>
    THEN <<[source |-> "instant", schedule_id |-> "None",
            current_phase |-> status.state,
            remaining_secs |-> status.time_remaining]>>
    ELSE IF active # "instant"
            /\ \E j \in 1..Len(list) : Str(list[j].id) = active
    THEN <<[source |-> "schedule", schedule_id |-> active,
            current_phase |-> status.state,
            remaining_secs |-> status.time_remaining]>>
    ELSE <<>>

\* line 171: the second call of get_status()
StatusRead(m) == get_status(m, now)

\* lines 168-170 and, with nothing active, 199-201: publish None, sleep, next
\* tick; with a manager that is not IDLE the loop goes on to line 171
DaemonPublish ==
    /\ pc = "publish"
    /\ IF current_manager # 0
          /\ get_status(managers[current_manager], now).state # "IDLE"
       THEN /\ pc' = "status"
            /\ UNCHANGED <<published, new_manager, new_id, extra_data>>
       ELSE /\ published' = <<>>
            /\ pc' = "tick"
            /\ EndOfTick
    /\ UNCHANGED <<managers, threads, current_manager, active_sched_id,
                   instant_lockout_data, command_data, storeVars, command_file,
                   historyVars>>
    /\ DaemonFrame

\* lines 171-201: read the status again, build the snapshot, publish it,
\* sleep, next tick
DaemonStatus ==
    /\ pc = "status"
    /\ published' = ActiveInfoOf(StatusRead(managers[current_manager]),
                                 active_sched_id, instant_lockout_data,
                                 sm_schedules)
    /\ pc' = "tick"
    /\ EndOfTick
    /\ UNCHANGED <<managers, threads, current_manager, active_sched_id,
                   instant_lockout_data, command_data, storeVars, command_file,
                   historyVars>>
    /\ DaemonFrame

\* the clock passes midnight
AdvanceToMidnight ==
    /\ pc # "crashed"
    /\ clock_steps < MaxClockSteps
    /\ clock_steps' = clock_steps + 1
    /\ now' = (Today(now) + 1) * DaySeconds
    /\ UNCHANGED <<managers, threads, pc, daemonLocals, storeVars,
                   command_file, published, ncmds, historyVars, nedits,
                   callVars>>

----------------------------------------------------------------------------
(* The daemon run *)

SchedA == LockSchedule("UUID(A)", <<"0", "0", ":", "0", "5">>, <<"0", "0", ":", "1", "0">>,
                       TRUE, <<"nvim">>, FALSE)
SchedB == LockSchedule("UUID(B)", <<"1", "2", "a", "m">>, <<"1", "2", ":", "1", "5", "A", "M">>,
                       FALSE, <<>>, TRUE)

InitialFiles ==
    {<<>>, Dumped(<<SchedA>>), Dumped(<<SchedB>>), Dumped(<<SchedA, SchedB>>)}

\* the id add_schedule draws: a UUID no schedule has had
FreshId(n) == IdObjects[Len(<<SchedA, SchedB>>) + n + 1]

\* ScheduleManager(): an empty list, no mtime, then _load_schedules
FreshStore(file) == LoadedSchedules(<<>>, FALSE, file)

\* `lmout add START END`: the arguments
CliAddArgs ==
    {[start_time |-> SchedA.start_time, end_time |-> SchedA.end_time,
      persist |-> FALSE]}

\* cli.add, lines 77-86: the range parses and is not longer than the maximum
CliAddAccepts(a, t) ==
    /\ RangeParses(a.start_time, a.end_time)
    /\ calculate_from_range(a.start_time, a.end_time, t)[3] \div 60
          <= MAX_LOCKOUT_MINUTES

\* cli.add in another process: a store of its own over the same file
CliAdd ==
    /\ pc # "crashed"
    /\ nedits < MaxCliEdits
    /\ \E a \in CliAddArgs :
          /\ CliAddAccepts(a, now)
          /\ schedules_file' =
                save_schedules(add_schedule(FreshStore(schedules_file),
                                            FreshId(nedits), a.start_time,
                                            a.end_time, a.persist))
    /\ sm_mtime_seen' = FALSE
    /\ nedits' = nedits + 1
    /\ added_busy' = IF /\ current_manager # 0
                        /\ managers[current_manager].state \in {"WAITING", "LOCKED"}
                     THEN added_busy \cup {Str(FreshId(nedits))}
                     ELSE added_busy
    /\ UNCHANGED <<now, clock_steps, managers, threads, pc, daemonLocals,
                   sm_schedules, command_file, published, ncmds, acted,
                   tick_cmd, stopped_on, callVars>>

\* cli.remove in another process: the schedule at an index of the listing
CliRemove ==
    /\ pc # "crashed"
    /\ nedits < MaxCliEdits
    /\ LET sm == FreshStore(schedules_file)
           schedules_with_info == check_schedules(sm, now)
       IN  \E idx \in 1..Len(schedules_with_info) :
              schedules_file' =
                 save_schedules(remove_schedule(sm,
                                   Str(schedules_with_info[idx][1].id)))
    /\ sm_mtime_seen' = FALSE
    /\ nedits' = nedits + 1
    /\ UNCHANGED <<now, clock_steps, managers, threads, pc, daemonLocals,
                   sm_schedules, command_file, published, ncmds, historyVars,
                   callVars>>

\* run_daemon lines 70-79: ScheduleManager() loads the file, nothing is bound
InitOver(files) ==
    /\ now = 0
    /\ clock_steps = 0
    /\ managers = <<>>
    /\ threads = <<>>
    /\ pc = "tick"
    /\ current_manager = 0
    /\ active_sched_id = "None"
    /\ instant_lockout_data = <<>>
    /\ new_manager = 0
    /\ new_id = "None"
    /\ extra_data = <<>>
    /\ command_data = <<>>
    /\ schedules_file \in files
    /\ sm_schedules = Parsed(schedules_file)
    /\ sm_mtime_seen = TRUE
    /\ command_file = <<>>
    /\ published = <<>>
    /\ ncmds = 0
    /\ acted = <<>>
    /\ tick_cmd = "None"
    /\ stopped_on = {}
    /\ added_busy = {}
    /\ nedits = 0
    /\ range_call = <<>>
    /\ range_result = <<>>
    /\ store_call = <<>>
    /\ last_written_state = <<>>
    /\ state_file = <<>>
    /\ wait_run = <<>>
    /\ lock_run = <<>>

Init == InitOver(InitialFiles)

Next ==
    \/ DaemonTick
    \/ CmdAct
    \/ DaemonStopJoin
    \/ DaemonStopFinish
    \/ DaemonSched
    \/ DaemonPublish
    \/ DaemonStatus
    \/ WriteCommand
    \/ ThreadStep
    \/ Advance
    \/ AdvanceToMidnight

Spec == Init /\ [][Next]_vars

\* a persistent schedule whose window, 15 minutes, is longer than the maximum
\* lockout
SchedL == LockSchedule("UUID(G)", <<"1", "2", "a", "m">>, <<"1", "2", ":", "1", "5", "A", "M">>,
                       TRUE, <<>>, TRUE)

\* the daemon is started over a file holding that schedule
ClampInit == InitOver({Dumped(<<SchedL>>)})

ClampSpec == ClampInit /\ [][Next]_vars

\* the daemon run with the CLI editing the schedule file meanwhile
EditNext ==
    \/ Next
    \/ CliAdd
    \/ CliRemove

\* the daemon is started over a file holding the one-time schedule
EditInit == Init /\ schedules_file = Dumped(<<SchedB>>)

EditSpec == EditInit /\ [][EditNext]_vars

----------------------------------------------------------------------------
(* A caller driving one LockOutManager through its public operations *)

CallerFrame ==
    UNCHANGED <<now, clock_steps, daemonLocals, storeVars, command_file,
                published, ncmds, historyVars, nedits, callVars>>

StartArgs ==
    {[apps |-> <<>>, only |-> FALSE, notif |-> <<>>],
     [apps |-> <<"nvim">>, only |-> TRUE,
      notif |-> <<"Lockout in 5 minutes", "starts soon">>]}

CallerStart ==
    /\ pc = "caller"
    /\ Len(threads) < MaxStarts \/ managers[1].running
    /\ \E a \in StartArgs :
          /\ managers' = StartedManagers(managers, threads, 1, a.apps, a.only, a.notif)
          /\ threads' = StartedThreads(managers, threads, 1)
    /\ pc' = "caller"
    /\ CallerFrame

CallerStop ==
    /\ pc = "caller"
    /\ managers' = StopSignalled(managers, 1)
    /\ pc' = IF StopProceeds(managers, 1) THEN "caller_join" ELSE "caller"
    /\ UNCHANGED threads
    /\ CallerFrame

CallerJoin ==
    /\ pc = "caller_join"
    /\ JoinReturns(1)
    /\ pc' = "caller_clear_running"
    /\ UNCHANGED <<managers, threads>>
    /\ CallerFrame

CallerStopClearRunning ==
    /\ pc = "caller_clear_running"
    /\ managers' = StopCleared(managers, 1)
    /\ pc' = "caller_reset_state"
    /\ UNCHANGED threads
    /\ CallerFrame

CallerStopResetState ==
    /\ pc = "caller_reset_state"
    /\ managers' = StopReset(managers, 1)
    /\ pc' = "caller"
    /\ UNCHANGED threads
    /\ CallerFrame

SessionDelays == {0, Quantum}
SessionDurations == {Quantum}

SessionInit ==
    /\ now = 0
    /\ clock_steps = 0
    /\ \E d \in SessionDelays, l \in SessionDurations :
          managers = <<NewManager(d, l)>>
    /\ threads = <<>>
    /\ pc = "caller"
    /\ current_manager = 1
    /\ active_sched_id = "None"
    /\ instant_lockout_data = <<>>
    /\ new_manager = 0
    /\ new_id = "None"
    /\ extra_data = <<>>
    /\ command_data = <<>>
    /\ sm_schedules = <<>>
    /\ sm_mtime_seen = TRUE
    /\ schedules_file = <<>>
    /\ command_file = <<>>
    /\ published = <<>>
    /\ ncmds = 0
    /\ acted = <<>>
    /\ tick_cmd = "None"
    /\ stopped_on = {}
    /\ added_busy = {}
    /\ nedits = 0
    /\ range_call = <<>>
    /\ range_result = <<>>
    /\ store_call = <<>>
    /\ last_written_state = <<>>
    /\ state_file = <<>>
    /\ wait_run = <<>>
    /\ lock_run = <<>>

SessionNext ==
    \/ CallerStart
    \/ CallerStop
    \/ CallerJoin
    \/ CallerStopClearRunning
    \/ CallerStopResetState
    \/ ThreadStep
    \/ Advance

SessionSpec == SessionInit /\ [][SessionNext]_vars

----------------------------------------------------------------------------
(* Calls of calculate_from_range *)

Chars8pm == <<"8", "p", "m">>
Chars830PM == <<"8", ":", "3", "0", " ", "P", "M">>
Chars2000 == <<"2", "0", ":", "0", "0">>
Chars2030 == <<"2", "0", ":", "3", "0">>
Chars2300 == <<"2", "3", ":", "0", "0">>
Chars0100 == <<"0", "1", ":", "0", "0">>
Chars000001 == <<"0", "0", ":", "0", "0", ":", "0", "1">>
CharsInvalid == <<"i", "n", "v", "a", "l", "i", "d">>

\* time strings in the four formats, and one that is none
RangeStrings ==
    {Chars8pm, Chars830PM, Chars2000, Chars2030, Chars2300, Chars0100,
     Chars000001, CharsInvalid}

\* hh:mm:ss of day d, in half seconds, plus a half second when half = 1
HalfSecondsAt(d, hh, mm, ss, half) ==
    2 * (d * DaySeconds + hh * 3600 + mm * 60 + ss) + half

\* values of `now`: noon, 18:00, 20:00, half a second before 20:30, 23:30,
\* half a second past midnight, 00:30, and noon of the next day
RangeNows ==
    {HalfSecondsAt(0, 12, 0, 0, 0), HalfSecondsAt(0, 18, 0, 0, 0),
     HalfSecondsAt(0, 20, 0, 0, 0), HalfSecondsAt(0, 20, 29, 59, 1),
     HalfSecondsAt(0, 23, 30, 0, 0), HalfSecondsAt(0, 0, 0, 0, 1),
     HalfSecondsAt(0, 0, 30, 0, 0), HalfSecondsAt(1, 12, 0, 0, 0)}

\* calculate_from_range(start, end, now) returns or raises
RangeCall ==
    /\ pc = "range_call"
    /\ range_result' = calculate_from_range_at(range_call.start, range_call.end,
                                               range_call.now)
    /\ pc' = "range_done"
    /\ UNCHANGED <<range_call, store_call, last_written_state, state_file,
                   wait_run, lock_run>>
    /\ UNCHANGED <<now, clock_steps, managers, threads, daemonLocals, storeVars,
                   command_file, published, ncmds, historyVars, nedits>>

RangeInit ==
    /\ now = 0
    /\ clock_steps = 0
    /\ managers = <<>>
    /\ threads = <<>>
    /\ pc = "range_call"
    /\ current_manager = 0
    /\ active_sched_id = "None"
    /\ instant_lockout_data = <<>>
    /\ new_manager = 0
    /\ new_id = "None"
    /\ extra_data = <<>>
    /\ command_data = <<>>
    /\ sm_schedules = <<>>
    /\ sm_mtime_seen = TRUE
    /\ schedules_file = <<>>
    /\ command_file = <<>>
    /\ published = <<>>
    /\ ncmds = 0
    /\ acted = <<>>
    /\ tick_cmd = "None"
    /\ stopped_on = {}
    /\ added_busy = {}
    /\ nedits = 0
    /\ range_call \in [start : RangeStrings, end : RangeStrings, now : RangeNows]
    /\ range_result = <<>>
    /\ store_call = <<>>
    /\ last_written_state = <<>>
    /\ state_file = <<>>
    /\ wait_run = <<>>
    /\ lock_run = <<>>

RangeNext == RangeCall

RangeSpec == RangeInit /\ [][RangeNext]_vars

----------------------------------------------------------------------------
(* A caller driving one ScheduleManager, and another process writing its file *)

StoreFrame ==
    UNCHANGED <<now, clock_steps, managers, threads, pc, daemonLocals,
                command_file, published, ncmds, historyVars, range_call,
                range_result, last_written_state, state_file, wait_run,
                lock_run>>

\* the record of a call: method, id argument, returned value, and the list
\* the store held when it was called
Called(op, id, result) ==
    <<[op |-> op, id |-> id, result |-> result, before |-> sm_schedules]>>

\* add_schedule(start_time, end_time, persist=...)
AddArgs ==
    {[start_time |-> Chars8pm, end_time |-> Chars830PM, persist |-> FALSE],
     [start_time |-> CharsInvalid, end_time |-> Chars2000, persist |-> TRUE]}

StoreAdd ==
    /\ pc = "store"
    /\ nedits < MaxEdits
    /\ \E a \in AddArgs :
          LET added == add_schedule(sm_schedules, FreshId(nedits), a.start_time,
                                    a.end_time, a.persist)
          IN  /\ sm_schedules' = added
              /\ schedules_file' = save_schedules(added)
              /\ store_call' = Called("add", FreshId(nedits), <<added[Len(added)]>>)
    /\ sm_mtime_seen' = FALSE
    /\ nedits' = nedits + 1
    /\ StoreFrame

\* ids passed to remove_schedule and skip_schedule_today: UUID objects and
\* string forms, of schedules that may or may not be stored
IdArgs == {"UUID(A)", "A", "B", "UUID(C)", "G"}

StoreRemove ==
    /\ pc = "store"
    /\ nedits < MaxEdits
    /\ \E id \in IdArgs :
          /\ sm_schedules' = remove_schedule(sm_schedules, id)
          /\ schedules_file' = save_schedules(remove_schedule(sm_schedules, id))
          /\ store_call' = Called("remove", id, <<>>)
    /\ sm_mtime_seen' = FALSE
    /\ nedits' = nedits + 1
    /\ StoreFrame

\* skip_schedule_today saves only when a date was appended
StoreSkip ==
    /\ pc = "store"
    /\ nedits < MaxEdits
    /\ \E id \in {"A", "B"} :
          LET after == skip_schedule_today(sm_schedules, id, Today(now))
          IN  /\ sm_schedules' = after
              /\ schedules_file' = IF after # sm_schedules
                                   THEN save_schedules(after) ELSE schedules_file
              /\ sm_mtime_seen' = (sm_mtime_seen /\ after = sm_schedules)
              /\ store_call' = Called("skip", id, <<>>)
    /\ nedits' = nedits + 1
    /\ StoreFrame

\* update_schedule with a copy of a stored schedule whose `enabled` is flipped
StoreUpdate ==
    /\ pc = "store"
    /\ nedits < MaxEdits
    /\ \E j \in 1..Len(sm_schedules) :
          LET after == update_schedule(sm_schedules,
                          [sm_schedules[j] EXCEPT !.enabled = ~@])
          IN  /\ sm_schedules' = after
              /\ schedules_file' = save_schedules(after)
              /\ store_call' = Called("update", sm_schedules[j].id, <<>>)
    /\ sm_mtime_seen' = FALSE
    /\ nedits' = nedits + 1
    /\ StoreFrame

\* _load_schedules()
StoreLoad ==
    /\ pc = "store"
    /\ sm_schedules' = LoadedSchedules(sm_schedules, sm_mtime_seen, schedules_file)
    /\ sm_mtime_seen' = LoadedSeen(sm_mtime_seen, schedules_file)
    /\ store_call' = Called("load", "None", <<>>)
    /\ UNCHANGED <<schedules_file, nedits>>
    /\ StoreFrame

\* check_schedules()
StoreCheck ==
    /\ pc = "store"
    /\ store_call' = Called("check", "None", check_schedules(sm_schedules, now))
    /\ UNCHANGED <<storeVars, nedits>>
    /\ StoreFrame

\* a file that json.load or LockSchedule(**s) rejects: an entry without the
\* required fields
CorruptFile == <<[id |-> "A"]>>

\* another process writes the schedule file
ExternalWrite ==
    /\ pc = "store"
    /\ nedits < MaxEdits
    /\ schedules_file' \in (InitialFiles \cup {CorruptFile}) \ {schedules_file}
    /\ sm_mtime_seen' = FALSE
    /\ store_call' = Called("external", "None", <<>>)
    /\ nedits' = nedits + 1
    /\ UNCHANGED sm_schedules
    /\ StoreFrame

StoreInit ==
    /\ now = 0
    /\ clock_steps = 0
    /\ managers = <<>>
    /\ threads = <<>>
    /\ pc = "store"
    /\ current_manager = 0
    /\ active_sched_id = "None"
    /\ instant_lockout_data = <<>>
    /\ new_manager = 0
    /\ new_id = "None"
    /\ extra_data = <<>>
    /\ command_data = <<>>
    /\ schedules_file \in InitialFiles \cup {CorruptFile}
    /\ sm_schedules = FreshStore(schedules_file)
    /\ sm_mtime_seen = Parses(schedules_file)
    /\ command_file = <<>>
    /\ published = <<>>
    /\ ncmds = 0
    /\ acted = <<>>
    /\ tick_cmd = "None"
    /\ stopped_on = {}
    /\ added_busy = {}
    /\ nedits = 0
    /\ range_call = <<>>
    /\ range_result = <<>>
    /\ store_call = <<>>
    /\ last_written_state = <<>>
    /\ state_file = <<>>
    /\ wait_run = <<>>
    /\ lock_run = <<>>

StoreNext ==
    \/ StoreAdd
    \/ StoreRemove
    \/ StoreSkip
    \/ StoreUpdate
    \/ StoreLoad
    \/ StoreCheck
    \/ ExternalWrite
    \/ AdvanceToMidnight

StoreSpec == StoreInit /\ [][StoreNext]_vars

----------------------------------------------------------------------------
(* utils/state.py: the state file and its writer *)

\* os.getpid() of the daemon process
Pid == "pid"

\* write_state, lines 14-18; t stands for datetime.now().isoformat(): two
\* calls at the same clock value read the same timestamp
StateOf(active_info, t) ==
    [pid |-> Pid, last_update |-> t, active_lockout |-> active_info]

\* the snapshots handed to write_state: None, or the active_info of a Session
ActiveInfos ==
    {<<>>,
     <<[source |-> "instant", current_phase |-> "WAITING", remaining_secs |-> Quantum]>>,
     <<[source |-> "instant", current_phase |-> "LOCKED", remaining_secs |-> Quantum]>>}

PublisherFrame ==
    UNCHANGED <<now, clock_steps, managers, threads, pc, daemonLocals,
                storeVars, command_file, ncmds, historyVars, nedits,
                range_call, range_result, store_call, wait_run,
                lock_run>>

\* write_state(active_info): lines 20-21 return when the state equals the one
\* written last; lines 23-29 write the file and remember the state, or do
\* neither when the write raises
WriteState ==
    /\ pc = "publisher"
    /\ \E active_info \in ActiveInfos, written \in BOOLEAN :
          LET state == StateOf(active_info, now) IN
          /\ published' = active_info
          /\ IF <<state>> = last_written_state \/ ~written
             THEN UNCHANGED <<last_written_state, state_file>>
             ELSE /\ state_file' = <<state>>
                  /\ last_written_state' = <<state>>
    /\ PublisherFrame

\* cleanup_state(): the state file is removed
CleanupState ==
    /\ pc = "publisher"
    /\ state_file # <<>>
    /\ state_file' = <<>>
    /\ UNCHANGED <<published, last_written_state>>
    /\ PublisherFrame

PublishInit ==
    /\ now = 0
    /\ clock_steps = 0
    /\ managers = <<>>
    /\ threads = <<>>
    /\ pc = "publisher"
    /\ current_manager = 0
    /\ active_sched_id = "None"
    /\ instant_lockout_data = <<>>
    /\ new_manager = 0
    /\ new_id = "None"
    /\ extra_data = <<>>
    /\ command_data = <<>>
    /\ sm_schedules = <<>>
    /\ sm_mtime_seen = TRUE
    /\ schedules_file = <<>>
    /\ command_file = <<>>
    /\ published = <<>>
    /\ ncmds = 0
    /\ acted = <<>>
    /\ tick_cmd = "None"
    /\ stopped_on = {}
    /\ added_busy = {}
    /\ nedits = 0
    /\ range_call = <<>>
    /\ range_result = <<>>
    /\ store_call = <<>>
    /\ last_written_state = <<>>
    /\ state_file = <<>>
    /\ wait_run = <<>>
    /\ lock_run = <<>>

PublishNext ==
    \/ WriteState
    \/ CleanupState
    \/ Advance
    \/ AdvanceToMidnight

PublishSpec == PublishInit /\ [][PublishNext]_vars

----------------------------------------------------------------------------
(* One run of _wait_initial_delay, in seconds *)

MaxDelay == 70
MaxLate == 1

\* initial_delay_seconds of the runs followed
WaitDelays == 1..MaxDelay

\* line 119: the longest sleep between two looks at the clock
PollSeconds == 5

\* line 112: the remaining time is in the window of the one-minute notice
InOneMinuteWindow(remaining) ==
    OneMinuteWindow <= remaining /\ remaining < OneMinuteWindow + 1

\* lines 103-107: t is time.time() counted from line 104, wake the time at
\* which the wait of line 123 times out, sent the number of one-minute
\* notices delivered
NewWait(d) ==
    [initial_delay_seconds |-> d, t |-> 0, wake |-> 0, pc |-> "loop",
     notified_one_minute |-> FALSE, sent |-> 0, stop_event |-> FALSE]

WaitFrame ==
    UNCHANGED <<now, clock_steps, managers, threads, pc, daemonLocals,
                storeVars, command_file, published, ncmds, historyVars,
                nedits, range_call, range_result, store_call,
                last_written_state, state_file, lock_run>>

\* lines 109-121: one pass of the loop up to the wait
WaitPoll ==
    /\ wait_run # <<>>
    /\ wait_run[1].pc = "loop"
    /\ LET r == wait_run[1]
           remaining == r.initial_delay_seconds - r.t
           notify == InOneMinuteWindow(remaining) /\ ~r.notified_one_minute
           sleep_duration == Min(remaining, PollSeconds)
       IN  wait_run' =
              IF r.t >= r.initial_delay_seconds \/ sleep_duration <= 0
              THEN <<[r EXCEPT !.pc = "done"]>>
              ELSE <<[r EXCEPT !.pc = "sleeping",
                               !.wake = r.t + sleep_duration,
                               !.sent = IF notify THEN @ + 1 ELSE @,
                               !.notified_one_minute = @ \/ notify]>>
    /\ WaitFrame

\* lines 123-124: the wait times out (the thread may be woken late), or
\* returns at once because the stop event is set
WaitWake ==
    /\ wait_run # <<>>
    /\ wait_run[1].pc = "sleeping"
    /\ LET r == wait_run[1] IN
       IF r.stop_event
       THEN wait_run' = <<[r EXCEPT !.pc = "cancelled"]>>
       ELSE \E late \in 0..MaxLate :
               wait_run' = <<[r EXCEPT !.pc = "loop", !.t = r.wake + late]>>
    /\ WaitFrame

\* stop(), line 74, from another thread: at some moment of the sleep, or
\* while the routine is between two waits
WaitStop ==
    /\ wait_run # <<>>
    /\ wait_run[1].pc \in {"loop", "sleeping"}
    /\ ~wait_run[1].stop_event
    /\ LET r == wait_run[1] IN
       IF r.pc = "sleeping"
       THEN \E at \in r.t..r.wake :
               wait_run' = <<[r EXCEPT !.stop_event = TRUE, !.t = at]>>
       ELSE wait_run' = <<[r EXCEPT !.stop_event = TRUE]>>
    /\ WaitFrame

WaitInit ==
    /\ now = 0
    /\ clock_steps = 0
    /\ managers = <<>>
    /\ threads = <<>>
    /\ pc = "waiter"
    /\ current_manager = 0
    /\ active_sched_id = "None"
    /\ instant_lockout_data = <<>>
    /\ new_manager = 0
    /\ new_id = "None"
    /\ extra_data = <<>>
    /\ command_data = <<>>
    /\ sm_schedules = <<>>
    /\ sm_mtime_seen = TRUE
    /\ schedules_file = <<>>
    /\ command_file = <<>>
    /\ published = <<>>
    /\ ncmds = 0
    /\ acted = <<>>
    /\ tick_cmd = "None"
    /\ stopped_on = {}
    /\ added_busy = {}
    /\ nedits = 0
    /\ range_call = <<>>
    /\ range_result = <<>>
    /\ store_call = <<>>
    /\ last_written_state = <<>>
    /\ state_file = <<>>
    /\ lock_run = <<>>
    /\ \E d \in WaitDelays : wait_run = <<NewWait(d)>>

WaitNext ==
    \/ WaitPoll
    \/ WaitWake
    \/ WaitStop

WaitSpec == WaitInit /\ [][WaitNext]_vars

----------------------------------------------------------------------------
(* One run of _run from the end of the delay on, in seconds *)

MaxLockSeconds == 14
MaxUnlocks == 2

\* lockout_duration_seconds of the runs followed
LockDurations == {MaxLockSeconds - 8, MaxLockSeconds}

\* initial_delay_seconds of the runs followed
LockDelays == {0, PollSeconds + 2}

\* manager.py line 152: the timeout handed to wait_for_unlock
UnlockTimeout == 10
\* manager.py line 155: the wait of a pass that does not watch for the unlock
PassWait == 2
\* processes.py line 222: the pause after the unlock signal
UnlockPause == 3

\* t is time.time() counted from line 130, wake the time at which the current
\* wait returns; screen_locked is the state of the screen.  did holds the
\* requests of the current pass, observed the first answer of
\* is_screen_locked in it.  History: unlocks counts the unlocks by the user,
\* pending says that the user has unlocked since the last lock request, and
\* unlocked_at when
NewLock(delay, d, only, apps, locked) ==
    [initial_delay_seconds |-> delay,
     lockout_duration_seconds |-> d, block_only |-> only, blocked_apps |-> apps,
     running |-> TRUE, state |-> "WAITING", stop_event |-> FALSE,
     pc |-> "waiting", t |-> 0, wake |-> 0, screen_locked |-> locked,
     observed |-> "none", did |-> {}, raised |-> FALSE,
     unlocks |-> 0, pending |-> FALSE, unlocked_at |-> 0]

LockFrame ==
    UNCHANGED <<now, clock_steps, managers, threads, pc, daemonLocals,
                storeVars, command_file, published, ncmds, historyVars,
                nedits, range_call, range_result, store_call,
                last_written_state, state_file, wait_run>>

\* _wait_initial_delay, lines 109-124: a pass of the loop and its wait of at
\* most five seconds; the loop is left when the delay is over or the stop
\* event is set
LockDelayPoll ==
    /\ lock_run # <<>>
    /\ lock_run[1].pc = "waiting"
    /\ LET r == lock_run[1]
           remaining == r.initial_delay_seconds - r.t
       IN  lock_run' =
              IF remaining <= 0 \/ r.stop_event
              THEN <<[r EXCEPT !.pc = "run_check"]>>
              ELSE <<[r EXCEPT !.t = r.t + Min(remaining, PollSeconds)]>>
    /\ LockFrame

\* _run lines 85-88 and _perform_lockout lines 129-131
LockEnter ==
    /\ lock_run # <<>>
    /\ lock_run[1].pc = "run_check"
    /\ lock_run' = IF lock_run[1].stop_event
                   THEN <<[lock_run[1] EXCEPT !.pc = "finally"]>>
                   ELSE <<[lock_run[1] EXCEPT !.pc = "loop", !.state = "LOCKED",
                                              !.t = 0]>>
    /\ LockFrame

\* lines 134-140: the head of a pass and kill_processes
LockPass ==
    /\ lock_run # <<>>
    /\ lock_run[1].pc = "loop"
    /\ LET r == lock_run[1] IN
       lock_run' =
          IF r.t >= r.lockout_duration_seconds
          THEN <<[r EXCEPT !.pc = "lock_done"]>>
          ELSE IF r.stop_event
          THEN <<[r EXCEPT !.pc = "finally"]>>
          ELSE <<[r EXCEPT !.pc = IF r.block_only THEN "second" ELSE "observe",
                           !.observed = "none",
                           !.did = IF r.blocked_apps # <<>> THEN {"kill"} ELSE {}]>>
    /\ LockFrame

\* is_screen_locked: the state of the screen, or False when no method answers
IsScreenLocked(r) == {r.screen_locked, FALSE}

\* lines 144-145 with the call of lock_screen left out
AfterObserveNoLock(answer) == "second"

\* lines 144-145: lock_screen is called when the screen is not locked
AfterObserve(answer) == IF answer THEN "second" ELSE "request"

\* lines 143-144: the first question
LockObserve ==
    /\ lock_run # <<>>
    /\ lock_run[1].pc = "observe"
    /\ \E answer \in IsScreenLocked(lock_run[1]) :
          lock_run' = <<[lock_run[1] EXCEPT
                            !.observed = IF answer THEN "locked" ELSE "unlocked",
                            !.pc = AfterObserve(answer)]>>
    /\ LockFrame

\* line 145: lock_screen; the command may fail to lock
LockRequest ==
    /\ lock_run # <<>>
    /\ lock_run[1].pc = "request"
    /\ \E locked \in {TRUE, lock_run[1].screen_locked} :
          lock_run' = <<[lock_run[1] EXCEPT
                            !.did = @ \cup {"lock"},
                            !.screen_locked = locked,
                            !.pending = FALSE,
                            !.pc = "second"]>>
    /\ LockFrame

\* lines 149-155: the second question chooses the wait of the pass
LockSecond ==
    /\ lock_run # <<>>
    /\ lock_run[1].pc = "second"
    /\ LET r == lock_run[1] IN
       \E answer \in IsScreenLocked(r) :
          lock_run' =
             IF ~r.block_only /\ answer
             THEN <<[r EXCEPT !.pc = "wait_unlock",
                              !.did = @ \cup {"wait_unlock"},
                              !.wake = r.t + UnlockTimeout]>>
             ELSE <<[r EXCEPT !.pc = "sleep", !.wake = r.t + PassWait]>>
    /\ LockFrame

\* lines 152, 155-156: the wait returns; the wait of line 155 returns from
\* _perform_lockout when the stop event is set
LockWaitReturns ==
    /\ lock_run # <<>>
    /\ lock_run[1].pc \in {"sleep", "wait_unlock"}
    /\ LET r == lock_run[1] IN
       lock_run' =
          IF r.stop_event
          THEN <<[r EXCEPT !.pc = IF r.pc = "sleep" THEN "finally" ELSE "loop"]>>
          ELSE <<[r EXCEPT !.pc = "loop", !.t = r.wake]>>
    /\ LockFrame

\* lines 158-160
LockDone ==
    /\ lock_run # <<>>
    /\ lock_run[1].pc = "lock_done"
    /\ lock_run' = <<[lock_run[1] EXCEPT !.pc = "finally"]>>
    /\ LockFrame

\* an exception that ends the thread without the finally block of _run
LockRaiseUncaught ==
    /\ lock_run # <<>>
    /\ LET r == lock_run[1] IN
       /\ \/ r.pc \in {"observe", "request"}
          \/ r.pc = "second" /\ (~r.block_only \/ r.blocked_apps # <<>>)
       /\ lock_run' = <<[r EXCEPT !.pc = "dead", !.raised = TRUE]>>
    /\ LockFrame

\* kill_processes, is_screen_locked or lock_screen raises: _run lines 90-91
LockRaise ==
    /\ lock_run # <<>>
    /\ LET r == lock_run[1] IN
       /\ \/ r.pc \in {"observe", "request"}
          \/ r.pc = "second" /\ (~r.block_only \/ r.blocked_apps # <<>>)
       /\ lock_run' = <<[r EXCEPT !.pc = "finally", !.raised = TRUE]>>
    /\ LockFrame

\* _run lines 93-94
LockFinally ==
    /\ lock_run # <<>>
    /\ lock_run[1].pc = "finally"
    /\ lock_run' = <<[lock_run[1] EXCEPT !.running = FALSE, !.state = "IDLE",
                                         !.pc = "dead"]>>
    /\ LockFrame

\* the user unlocks the screen; during wait_for_unlock the monitor may see
\* the signal (processes.py 218-223) and the wait then ends after the pause
LockUserUnlocks ==
    /\ lock_run # <<>>
    /\ LET r == lock_run[1] IN
       /\ r.screen_locked
       /\ r.pc \notin {"waiting", "run_check", "finally", "dead"}
       /\ r.unlocks < MaxUnlocks
       /\ IF r.pc \in {"sleep", "wait_unlock"}
          THEN \E at \in r.t..r.wake, seen \in BOOLEAN :
                  lock_run' =
                     <<[r EXCEPT !.screen_locked = FALSE,
                                 !.unlocks = @ + 1, !.pending = TRUE,
                                 !.t = at, !.unlocked_at = at,
                                 !.wake = IF r.pc = "wait_unlock" /\ seen
                                          THEN at + UnlockPause ELSE @]>>
          ELSE lock_run' = <<[r EXCEPT !.screen_locked = FALSE,
                                       !.unlocks = @ + 1, !.pending = TRUE,
                                       !.unlocked_at = r.t]>>
    /\ LockFrame

\* stop() line 74 from another thread, at some moment of the current wait
LockStop ==
    /\ lock_run # <<>>
    /\ LET r == lock_run[1] IN
       /\ r.running
       /\ ~r.stop_event
       /\ r.pc # "dead"
       /\ IF r.pc \in {"sleep", "wait_unlock"}
          THEN \E at \in r.t..r.wake :
                  lock_run' = <<[r EXCEPT !.stop_event = TRUE, !.t = at]>>
          ELSE lock_run' = <<[r EXCEPT !.stop_event = TRUE]>>
    /\ LockFrame

LockInit ==
    /\ now = 0
    /\ clock_steps = 0
    /\ managers = <<>>
    /\ threads = <<>>
    /\ pc = "locker"
    /\ current_manager = 0
    /\ active_sched_id = "None"
    /\ instant_lockout_data = <<>>
    /\ new_manager = 0
    /\ new_id = "None"
    /\ extra_data = <<>>
    /\ command_data = <<>>
    /\ sm_schedules = <<>>
    /\ sm_mtime_seen = TRUE
    /\ schedules_file = <<>>
    /\ command_file = <<>>
    /\ published = <<>>
    /\ ncmds = 0
    /\ acted = <<>>
    /\ tick_cmd = "None"
    /\ stopped_on = {}
    /\ added_busy = {}
    /\ nedits = 0
    /\ range_call = <<>>
    /\ range_result = <<>>
    /\ store_call = <<>>
    /\ last_written_state = <<>>
    /\ state_file = <<>>
    /\ wait_run = <<>>
    /\ \E delay \in LockDelays, d \in LockDurations, only \in BOOLEAN,
          apps \in {<<>>, <<"nvim">>}, locked \in BOOLEAN :
          lock_run = <<NewLock(delay, d, only, apps, locked)>>

\* the steps of the enforcement routine
LockRoutine ==
    \/ LockDelayPoll
    \/ LockEnter
    \/ LockPass
    \/ LockObserve
    \/ LockRequest
    \/ LockSecond
    \/ LockWaitReturns
    \/ LockDone
    \/ LockFinally

LockNext ==
    \/ LockRoutine
    \/ LockRaise
    \/ LockUserUnlocks
    \/ LockStop

LockSpec == LockInit /\ [][LockNext]_vars

\* the routine is a thread of its own: it keeps being scheduled, and the
\* calls it makes return
LockFairSpec == LockSpec /\ WF_vars(LockRoutine)

----------------------------------------------------------------------------
(* Properties *)

Active(ms) == {i \in 1..Len(ms) : ms[i].state \in {"WAITING", "LOCKED"}}

HasId(list, id) == \E j \in 1..Len(list) : Str(list[j].id) = Str(id)

SkippedToday(list, id, today) ==
    \E j \in 1..Len(list) :
        Str(list[j].id) = Str(id) /\ InSeq(today, list[j].skipped_dates)

Occurrences(seq, x) == Cardinality({j \in 1..Len(seq) : seq[j] = x})

\* a step of the daemon that starts no enforcement routine and creates no manager
NoSessionStarted ==
    /\ Len(managers') = Len(managers)
    /\ Len(threads') = Len(threads)
    /\ \A i \in 1..Len(managers) : managers'[i].running => managers[i].running

\* C1: in every reachable state of a daemon run at most one Session is in
\* phase WAITING or LOCKED, whatever commands and schedule activations occur.
C1_AtMostOneActive == Cardinality(Active(managers)) <= 1

\* C2: when stop() on a running Session returns (its last assignment, line 78,
\* is done), the phase is IDLE and the running flag is clear, so that a new
\* start() is accepted, whether or not the thread ended within the join.
C2_StopForcesIdle ==
    [][(pc = "caller_reset_state" /\ pc' = "caller")
         => /\ get_status(managers'[1], now').state = "IDLE"
            /\ get_status(managers'[1], now').time_remaining = 0
            /\ ~managers'[1].running]_vars

\* stop() has returned after a join that timed out: the thread is still alive
C2_Witness ==
    /\ pc = "caller"
    /\ managers[1].stop_event
    /\ managers[1].state = "IDLE"
    /\ ~managers[1].running
    /\ managers[1].thread # 0
    /\ Alive(managers[1].thread)

\* the Session is IDLE because it was never started, was already stopped, or
\* all its enforcement routines have finished
IdleSettled ==
    /\ managers[1].state = "IDLE"
    /\ \/ managers[1].thread = 0
       \/ managers[1].stop_event
       \/ \A k \in 1..Len(threads) : ~Alive(k)

\* C3: stop() on a Session that is IDLE (never started, already stopped or
\* finished normally) is a no-op: it returns at once, raises no cancellation
\* signal and leaves get_status() as it was.
C3_StopIdempotent ==
    (pc = "caller" /\ IdleSettled)
        => /\ ~StopProceeds(managers, 1)
           /\ StopSignalled(managers, 1) = managers
           /\ get_status(StopSignalled(managers, 1)[1], now)
                 = get_status(managers[1], now)

\* a Session that was started, ran to its end and is IDLE again
C3_Witness ==
    /\ pc = "caller"
    /\ IdleSettled
    /\ ~managers[1].stop_event
    /\ Len(threads) > 0
    /\ \A k \in 1..Len(threads) : ~Alive(k)
    /\ \E k \in 1..Len(threads) : InSeq("finished", threads[k].sent)

\* C4: start() on a Session that is already running changes neither a field
\* of the Session (phase, target end time, blocked apps, block-only,
\* start notification, cancellation flag) nor the set of its threads.
C4_StartWhileRunningNoOp ==
    (pc = "caller" /\ managers[1].running)
        => \A a \in StartArgs :
              /\ StartedManagers(managers, threads, 1, a.apps, a.only, a.notif)
                    = managers
              /\ StartedThreads(managers, threads, 1) = threads

\* a running Session in phase LOCKED whose fields differ from what a second
\* start() would pass
C4_Witness ==
    /\ pc = "caller"
    /\ managers[1].running
    /\ managers[1].state = "LOCKED"
    /\ \E a \in StartArgs : managers[1].blocked_apps # a.apps

\* the daemon finishes a stop request that names the persistent schedule its
\* Session is bound to
StopOfBoundPersistent ==
    /\ pc \in {"stop_finish", "stop_skip"}
    /\ pc' # pc
    /\ current_manager # 0
    /\ extra_data[1].is_persistent
    /\ extra_data[1].schedule_id = active_sched_id
    /\ \E j \in 1..Len(sm_schedules) :
          Str(sm_schedules[j].id) = active_sched_id /\ sm_schedules[j].persist

\* the phase of Session i is IDLE, or its thread has cleared the running flag
\* (line 93) and the assignment of IDLE (line 94) is its next statement
IdleOrSettingIdle(ms, ts, i) ==
    \/ ms[i].state = "IDLE"
    \/ /\ ms[i].thread # 0
       /\ ts[ms[i].thread].pc = "finally_state"

\* the daemon makes and starts a Session for a schedule
StartsSchedule ==
    /\ pc = "sched"
    /\ Len(managers') > Len(managers)

\* C5: when the daemon handles stop_lockout{schedule_id=A, is_persistent=true}
\* for the Session bound to persistent schedule A, then in that tick the
\* Session is IDLE, A is still stored (list and file) with today's date among
\* its skipped_dates, and the daemon starts no Session for A on a date on
\* which A was stopped that way.
C5_PersistentStopSkipsToday ==
    [][/\ StopOfBoundPersistent
            => /\ IdleOrSettingIdle(managers', threads', current_manager)
               /\ SkippedToday(sm_schedules', active_sched_id, Today(now))
               /\ SkippedToday(schedules_file', active_sched_id, Today(now))
       /\ StartsSchedule
            => <<active_sched_id', Today(now)>> \notin stopped_on]_vars

\* A was stopped today while its Session was running, the tick after the stop
\* is over, A is stored, would be due now, and nothing is bound
C5_Witness ==
    /\ <<"A", Today(now)>> \in stopped_on
    /\ pc = "publish"
    /\ tick_cmd = "None"
    /\ current_manager = 0
    /\ active_sched_id = "None"
    /\ Len(managers) = 1
    /\ managers[1].stop_event
    /\ managers[1].state = "IDLE"
    /\ SkippedToday(sm_schedules, "A", Today(now))
    /\ IsDue(check_schedules(<<SchedA>>, now))

\* the schedule-processing step of a tick that finds the bound Session IDLE
\* and its schedule, a one-time one, in the store
ClearsOneTime ==
    /\ pc = "sched"
    /\ pc' # pc
    /\ IsIdle(current_manager, managers)
    /\ \E j \in 1..Len(sm_schedules) :
          Str(sm_schedules[j].id) = active_sched_id /\ ~sm_schedules[j].persist

\* C6: when the Session bound to a schedule with persist=false is IDLE again,
\* the schedule processing of the next tick removes that schedule from the
\* in-memory list and from the schedule file and clears the binding.
C6_OneTimeRemoved ==
    [][ClearsOneTime
         => /\ ~HasId(sm_schedules', active_sched_id)
            /\ ~HasId(schedules_file', active_sched_id)
            /\ active_sched_id' # active_sched_id]_vars

\* the Session of one-time schedule B ran its whole duration, and after the
\* next tick B is in neither the list nor the file and nothing is bound to it
C6_Witness ==
    /\ pc = "publish"
    /\ ~HasId(sm_schedules, "B")
    /\ ~HasId(schedules_file, "B")
    /\ active_sched_id # "B"
    /\ \E i \in 1..Len(managers) :
          /\ managers[i].start_notification = StartNotification(SchedB)
          /\ managers[i].state = "IDLE"
          /\ ~managers[i].stop_event
          /\ InSeq("finished", threads[managers[i].thread].sent)

\* C7: from the moment a tick has consumed a stop_lockout command until the
\* loop ticks again, no Session is created and none is started.
C7_StopTickStartsNothing ==
    [][tick_cmd' = "stop_lockout" => NoSessionStarted]_vars

\* a stop tick is over, a schedule is due, and only the stopped Session exists
C7_Witness ==
    /\ tick_cmd = "stop_lockout"
    /\ pc = "tick"
    /\ current_manager = 0
    /\ IsDue(check_schedules(schedules_file, now))
    /\ Len(managers) = 1
    /\ managers[1].stop_event

\* C8: in a tick that consumed a start_instant command and finds the daemon
\* idle, the schedule processing binds the Session of that command under the
\* id "instant" and starts no Session for a schedule.
C8_InstantBeforeSchedule ==
    [][(pc = "sched" /\ pc' # pc /\ tick_cmd = "start_instant"
          /\ IsIdle(current_manager, managers))
         => /\ current_manager' = new_manager
            /\ new_manager # 0
            /\ active_sched_id' = "instant"
            /\ NoSessionStarted]_vars

\* the instant Session is bound although a schedule is due in the same tick
C8_Witness ==
    /\ pc = "publish"
    /\ tick_cmd = "start_instant"
    /\ active_sched_id = "instant"
    /\ current_manager = Len(managers)
    /\ Len(managers) = 1
    /\ IsDue(check_schedules(sm_schedules, now))

\* C9: a tick that finds the command file removes it before it acts on the
\* content, also when the content does not parse, and every command written
\* to the channel is acted upon at most once.
C9_ConsumedOnce ==
    [][/\ (pc = "tick" /\ pc' # pc /\ command_file # <<>>) => command_file' = <<>>
       /\ pc' = "cmd_act"
            => /\ command_data' # <<>>
               /\ \A j \in 1..Len(command_file') :
                     command_file'[j].id # command_data'[1].id
       /\ \A id \in 1..ncmds : Occurrences(acted', id) <= 1]_vars

\* a command was acted upon, and a later whole tick found no command
C9_Witness ==
    /\ acted = <<1>>
    /\ ncmds = 1
    /\ command_file = <<>>
    /\ tick_cmd = "None"
    /\ pc = "publish"

\* C10: a malformed command payload (invalid JSON, JSON that is no object, an
\* unknown command name, a field of the wrong type) is discarded: the loop goes
\* on to its schedule processing with the bound Session, the Sessions and the
\* schedule store as they were.
C10_MalformedDiscarded ==
    [][(/\ pc' # pc
        /\ \/ pc = "cmd_act" /\ IsMalformed(command_data[1].body)
           \/ pc = "tick" /\ command_file # <<>>
                 /\ command_file[1].body.kind = "invalid_json")
         => /\ pc' = "sched"
            /\ UNCHANGED <<managers, threads, current_manager, active_sched_id,
                           storeVars>>]_vars

\* the arguments of a finished call of calculate_from_range, parsed: times
\* of day in seconds, `now` in half seconds, midnight of now's date in seconds
CallDone == pc = "range_done" /\ range_result # <<ParseError>>
CallStart == parse_time_string(range_call.start)
CallEnd == parse_time_string(range_call.end)
CallMidnight == (range_call.now \div (2 * DaySeconds)) * DaySeconds
CallNowOfDay == range_call.now - 2 * CallMidnight

\* d is x in whole seconds: the whole seconds of x half seconds, truncated
IsWholeSecondsOf(d, x) == 2 * d <= x /\ x < 2 * d + 2

\* C14: for start < end on the same day and now < start, calculate_from_range
\* returns delay = start - now in whole seconds and remaining = total =
\* end - start.
C14_FutureRange ==
    (CallDone /\ CallStart < CallEnd /\ CallNowOfDay < 2 * CallStart)
        => /\ IsWholeSecondsOf(range_result[1], 2 * CallStart - CallNowOfDay)
           /\ range_result[2] = CallEnd - CallStart
           /\ range_result[3] = CallEnd - CallStart

\* compute("20:00", "20:30", now = 18:00) has returned 7200, 1800, 1800
C14_Witness ==
    /\ pc = "range_done"
    /\ range_call = [start |-> Chars2000, end |-> Chars2030,
                     now |-> HalfSecondsAt(0, 18, 0, 0, 0)]
    /\ range_result = <<7200, 1800, 1800>>

\* the end of the range on now's date after the overnight adjustment
CallEndAdjusted ==
    IF CallEnd <= CallStart THEN CallEnd + DaySeconds ELSE CallEnd

\* C15: for start <= now < end, with start and end on now's date after the
\* overnight adjustment, calculate_from_range returns delay = 0 and
\* remaining = max(1, end - now in whole seconds).
C15_InsideRange ==
    (CallDone /\ 2 * CallStart <= CallNowOfDay
              /\ CallNowOfDay < 2 * CallEndAdjusted)
        => /\ range_result[1] = 0
           /\ \/ /\ range_result[2] >= 1
                 /\ IsWholeSecondsOf(range_result[2],
                                     2 * CallEndAdjusted - CallNowOfDay)
              \/ /\ range_result[2] = 1
                 /\ 2 * CallEndAdjusted - CallNowOfDay < 2

\* half a second before the end of 20:00-20:30 the remaining duration is the
\* floor of one second
C15_Witness ==
    /\ pc = "range_done"
    /\ range_call = [start |-> Chars2000, end |-> Chars2030,
                     now |-> HalfSecondsAt(0, 20, 29, 59, 1)]
    /\ range_result = <<0, 1, 1800>>

\* C16: when end <= start as times of day, the end is taken on the following
\* day: total = (end + 1 day) - start, and 0 < total <= 86400, for every now.
C16_OvernightTotal ==
    (CallDone /\ CallEnd <= CallStart)
        => /\ range_result[3] = (CallEnd + DaySeconds) - CallStart
           /\ 0 < range_result[3]
           /\ range_result[3] <= 86400

\* compute("23:00", "01:00", now = 12:00) has returned a total of 7200
C16_Witness ==
    /\ pc = "range_done"
    /\ range_call = [start |-> Chars2300, end |-> Chars0100,
                     now |-> HalfSecondsAt(0, 12, 0, 0, 0)]
    /\ range_result[3] = 7200
    /\ range_result[1] = 11 * 3600

----------------------------------------------------------------------------
(* The schedule store: ScheduleManager driven by one caller *)

LastCall(op) == store_call # <<>> /\ store_call[1].op = op

\* C13: a load of a corrupt schedule file leaves the store with an empty
\* list, at construction and on every later _load_schedules()
C13_FailedLoadEmpty ==
    /\ FreshStore(CorruptFile) = <<>>
    /\ (LastCall("load") /\ ~Parses(schedules_file)) => sm_schedules = <<>>

SameDefinition(a, b) ==
    a.id = b.id /\ a.start_time = b.start_time /\ a.end_time = b.end_time

\* C17: after add_schedule, a fresh ScheduleManager over the same file holds
\* a schedule with the id, start_time and end_time of the returned one, and as
\* many schedules as the first store
C17_RoundTrip ==
    LastCall("add") =>
        LET fresh == FreshStore(schedules_file)
        IN  /\ Len(fresh) = Len(sm_schedules)
            /\ \E j \in 1..Len(fresh) :
                  SameDefinition(fresh[j], store_call[1].result[1])

C17_Witness ==
    /\ LastCall("add")
    /\ Len(store_call[1].before) = 2
    /\ Len(FreshStore(schedules_file)) = 3
    /\ SameDefinition(FreshStore(schedules_file)[3], store_call[1].result[1])
    /\ store_call[1].result[1].id = "UUID(C)"

\* indices of the schedules of list whose id is not schedule_id, in either
\* representation
KeptIndices(list, schedule_id) ==
    {j \in 1..Len(list) : Str(list[j].id) # Str(schedule_id)}

\* the n-th smallest element of a set of indices
NthIndex(set, n) == CHOOSE j \in set : Cardinality({k \in set : k <= j}) = n

\* C18: after remove_schedule(id), id a UUID or its string form, no schedule
\* has that id, the others are kept in their order, the file holds the result,
\* and an id that was not present leaves the list unchanged
C18_Remove ==
    LastCall("remove") =>
        LET before == store_call[1].before
            id == store_call[1].id
            kept == KeptIndices(before, id)
        IN  /\ \A j \in 1..Len(sm_schedules) :
                  /\ sm_schedules[j].id # id
                  /\ Str(sm_schedules[j].id) # Str(id)
            /\ Len(sm_schedules) = Cardinality(kept)
            /\ \A n \in 1..Len(sm_schedules) :
                  sm_schedules[n] = before[NthIndex(kept, n)]
            /\ FreshStore(schedules_file) = sm_schedules
            /\ kept = 1..Len(before) => sm_schedules = before

\* the middle one of three removed by its string form
C18_Witness ==
    /\ LastCall("remove")
    /\ store_call[1].id = "B"
    /\ Len(store_call[1].before) = 3
    /\ store_call[1].before[2].id = "UUID(B)"
    /\ Len(sm_schedules) = 2
    /\ sm_schedules[1].id = "UUID(A)"
    /\ sm_schedules[2].id = "UUID(C)"
    /\ schedules_file = save_schedules(sm_schedules)

\* the schedules check_schedules returned
Returned(result) == {result[j][1] : j \in 1..Len(result)}

Stored(list) == {list[j] : j \in 1..Len(list)}

DisabledOrSkipped(sch, t) == ~sch.enabled \/ InSeq(Today(t), sch.skipped_dates)

\* C19: check_schedules returns no schedule that is disabled or has today's
\* date in skipped_dates, returns every other stored schedule whose times
\* parse, and leaves the stored list and the file as they were
C19_ListDue ==
    [][(/\ store_call' # store_call
        /\ store_call' # <<>>
        /\ store_call'[1].op = "check")
       => LET returned == Returned(store_call'[1].result)
          IN  /\ returned \subseteq Stored(sm_schedules)
              /\ \A sch \in returned : ~DisabledOrSkipped(sch, now)
              /\ \A sch \in Stored(sm_schedules) :
                    (/\ ~DisabledOrSkipped(sch, now)
                     /\ RangeParses(sch.start_time, sch.end_time))
                    => sch \in returned
              /\ Len(store_call'[1].result) = Cardinality(returned)
              /\ sm_schedules' = sm_schedules
              /\ schedules_file' = schedules_file]_vars

\* of three stored schedules, one skipped today and one disabled, only the
\* third is returned
C19_Witness ==
    /\ LastCall("check")
    /\ Len(sm_schedules) = 3
    /\ sm_schedules[1].enabled
    /\ InSeq(Today(now), sm_schedules[1].skipped_dates)
    /\ ~sm_schedules[2].enabled
    /\ Returned(store_call[1].result) = {sm_schedules[3]}
    /\ schedules_file = save_schedules(sm_schedules)

----------------------------------------------------------------------------
(* The daemon and the age of commands *)

\* the daemon acts on the command it read: a Session is started or stopped
ActsOnCommand ==
    /\ pc = "cmd_act"
    /\ pc' \in {"sched", "stop_join", "stop_skip"}
    /\ managers' # managers

\* C11: the daemon starts or stops no Session because of a command that was
\* older than the staleness threshold when the daemon read it
C11_StaleDiscarded ==
    [][ActsOnCommand =>
        command_data[1].read_at - command_data[1].at <= StaleSeconds]_vars

----------------------------------------------------------------------------
(* The daemon and edits of the schedule file by other processes *)

\* lines 110-166 of one tick
ScheduleProcessing == pc = "sched" /\ pc' = "publish"

\* C12: whatever the daemon's state, the schedule processing of a tick leaves
\* the in-memory list equal to the content of the schedule file, so that an
\* edit by another process is seen within one tick
C12_ReloadEveryTick ==
    [][ScheduleProcessing => sm_schedules' = Parsed(schedules_file')]_vars

----------------------------------------------------------------------------
(* The daemon and the maximum lockout *)

\* C20: every manager the daemon made, for a start_instant command or for a
\* schedule, locks for at most MAX_LOCKOUT_MINUTES * 60 seconds
C20_DurationClamped ==
    \A i \in 1..Len(managers) :
        managers[i].lockout_duration_seconds <= MAX_LOCKOUT_MINUTES * 60

\* a Session for the command asking for 15 minutes and a Session for the
\* 15-minute schedule B were started, each locking for the maximum
C20_Witness ==
    /\ Len(managers) = 2
    /\ \A i \in 1..2 :
          /\ managers[i].lockout_duration_seconds = MAX_LOCKOUT_MINUTES * 60
          /\ managers[i].thread # 0
    /\ active_sched_id = "instant"
    /\ current_manager = 2
    /\ acted # <<>>

----------------------------------------------------------------------------
(* The state publisher *)

\* write_state is called with the status it wrote last: same pid, same
\* active-session snapshot
SameStatusAgain ==
    /\ last_written_state # <<>>
    /\ last_written_state[1].pid = Pid
    /\ last_written_state[1].active_lockout = published'

\* C21: a write_state call with the status written last does not write the
\* state file
C21_RedundantWriteSkipped ==
    [][SameStatusAgain => state_file' = state_file \/ state_file' = <<>>]_vars

----------------------------------------------------------------------------
(* One Session instance under start() and stop() *)

\* the enforcement routines of managers[i] that have not exited
AliveRoutines(i) == {k \in 1..Len(threads) : threads[k].mgr = i /\ Alive(k)}

\* C22: whatever the interleaving of start() and stop() on one instance, at
\* most one enforcement routine of the instance is alive
C22_OneRoutine == \A i \in 1..Len(managers) : Cardinality(AliveRoutines(i)) <= 1

\* stop() has returned on the caller's Session and start() was not called
\* since: no call is in progress and the stop event is still set
StopReturned == pc = "caller" /\ managers[1].stop_event

\* a routine makes a kill, lock or wait-for-unlock request in this step
MakesRequest == \E k \in 1..Len(threads) : threads'[k].did \notin {{}, threads[k].did}

\* C23: from the return of stop() to the next start() the phase stays IDLE
\* and no routine of the Session makes a kill or lock request
C23_StoppedStaysIdle ==
    [][(StopReturned /\ managers'[1].stop_event)
       => managers'[1].state = "IDLE" /\ ~MakesRequest]_vars

----------------------------------------------------------------------------
(* The daemon and the Sessions it started *)

\* the Sessions the daemon loop holds: the bound one, and within a tick the
\* one _process_commands returned
HeldByDaemon == {current_manager, new_manager}

\* C24: every Session in phase WAITING or LOCKED is held by the daemon loop,
\* so that a stop_lockout command reaches every Session that is active
C24_ActiveIsCurrent == Active(managers) \subseteq HeldByDaemon

\* a write of the schedule file by the daemon
DaemonStoreWrite == schedules_file' # schedules_file /\ nedits' = nedits

\* C25: a schedule the CLI added while the daemon's Session was WAITING or
\* LOCKED is still in the schedule file after a write of the file by the daemon
C25_NoLostUpdate ==
    [][DaemonStoreWrite => \A id \in added_busy : HasId(schedules_file', id)]_vars

----------------------------------------------------------------------------
(* The phases of a Session *)

PhaseMoves ==
    {<<"IDLE", "WAITING">>, <<"WAITING", "LOCKED">>, <<"LOCKED", "IDLE">>,
     <<"WAITING", "IDLE">>}

\* the delay of Session i has fully elapsed and it has not been cancelled
DelayElapsedUncancelled(i) ==
    ~managers[i].stop_event /\ now >= managers[i].target_end_time

\* C26: the phase of a Session changes only along IDLE -> WAITING -> LOCKED ->
\* IDLE or IDLE -> WAITING -> IDLE, and LOCKED is entered only from WAITING
\* when the delay has fully elapsed and the Session has not been cancelled
C26_PhaseOrder ==
    [][\A i \in 1..Len(managers) :
          managers'[i].state # managers[i].state
             => /\ <<managers[i].state, managers'[i].state>> \in PhaseMoves
                /\ managers'[i].state = "LOCKED" => DelayElapsedUncancelled(i)]_vars

----------------------------------------------------------------------------
(* The notifications of a run *)

Count(seq, x) == Cardinality({j \in 1..Len(seq) : seq[j] = x})

\* the routine k has executed lines 98-99
PastStartNotification(k) == threads[k].pc # "wait_init"

\* C27: a run of a Session started with a start notification delivers it
\* exactly once, as the first notification of the run; a run of a Session
\* started without one never delivers it
C27_StartNotificationOnce ==
    \A k \in 1..Len(threads) :
       LET m == managers[threads[k].mgr]
           s == threads[k].sent
       IN  /\ Count(s, "start") =
                 IF m.start_notification # <<>> /\ PastStartNotification(k)
                 THEN 1 ELSE 0
           /\ Count(s, "start") = 1 => s[1] = "start"

\* a run has delivered its start notification and then another notification
C27_Witness ==
    \E k \in 1..Len(threads) :
       /\ Len(threads[k].sent) >= 2
       /\ threads[k].sent[1] = "start"
       /\ managers[threads[k].mgr].start_notification # <<>>

\* the wait ran to its end without a stop
WaitedThrough ==
    /\ wait_run # <<>>
    /\ wait_run[1].pc = "done"
    /\ ~wait_run[1].stop_event

\* C28: a wait of more than 60 seconds that is not cancelled delivers exactly
\* one "1 minute remaining" notification, whatever the delay; no wait delivers
\* it more than once
C28_OneMinuteNotice ==
    wait_run # <<>> =>
       /\ wait_run[1].sent <= 1
       /\ (WaitedThrough /\ wait_run[1].initial_delay_seconds > OneMinuteWindow)
             => wait_run[1].sent = 1

\* C29: a run delivers "Lockout Finished" exactly when its lockout ended
\* because the duration elapsed and stop() was not called during the run: never
\* when the stop event has been set, once when the routine has ended without it
C29_FinishedIffUncancelled ==
    \A k \in 1..Len(threads) :
       LET finished == Count(threads[k].sent, "finished")
           stopped == managers[threads[k].mgr].stop_event
       IN  /\ finished <= 1
           /\ stopped => finished = 0
           /\ (~Alive(k) /\ ~stopped) => finished = 1

----------------------------------------------------------------------------
(* Block-only Sessions *)

\* C30: a routine of a Session with block_only set never requests a screen
\* lock and never waits for the unlock signal; its only request is the
\* termination of the blocked apps, and only when there are some
C30_BlockOnlyNeverLocks ==
    \A k \in 1..Len(threads) :
       LET m == managers[threads[k].mgr] IN
       m.block_only =>
          /\ threads[k].did \subseteq {"kill"}
          /\ "kill" \in threads[k].did => m.blocked_apps # <<>>

\* a block-only Session has made a pass of its lockout that killed its apps
C30_Witness ==
    \E k \in 1..Len(threads) :
       /\ managers[threads[k].mgr].block_only
       /\ managers[threads[k].mgr].state = "LOCKED"
       /\ threads[k].did = {"kill"}

----------------------------------------------------------------------------
(* The lockout of a Session that locks the screen *)

\* the followed run is LOCKED with block_only false, not cancelled, and
\* still in its loop
Enforcing ==
    /\ lock_run # <<>>
    /\ lock_run[1].state = "LOCKED"
    /\ ~lock_run[1].block_only
    /\ ~lock_run[1].stop_event
    /\ lock_run[1].pc \in {"loop", "observe", "request", "second", "sleep",
                           "wait_unlock"}

\* the deadline of the followed run has not passed
BeforeDeadline == lock_run[1].t < lock_run[1].lockout_duration_seconds

\* a pass that saw the screen unlocked has requested the lock
LockedWhenSeenUnlocked ==
    (/\ Enforcing
     /\ lock_run[1].observed = "unlocked"
     /\ lock_run[1].pc \in {"second", "sleep", "wait_unlock"})
        => "lock" \in lock_run[1].did

\* an unlock by the user is never left unanswered for longer than the
\* longest wait of a pass
RelockedWithinOneWait ==
    (Enforcing /\ BeforeDeadline /\ lock_run[1].pending)
        => lock_run[1].t - lock_run[1].unlocked_at <= UnlockTimeout

\* C31: while a Session with block_only false is LOCKED and not cancelled, a
\* pass that observes the screen unlocked requests a screen lock in that
\* pass, and after the user unlocks the screen before the deadline a new lock
\* request follows within one bounded wait, unless the deadline passes or the
\* run ends first
C31_RelocksScreen ==
    /\ [](LockedWhenSeenUnlocked /\ RelockedWithinOneWait)
    /\ (Enforcing /\ lock_run[1].pending)
          ~> (~Enforcing \/ ~BeforeDeadline \/ ~lock_run[1].pending)

\* the user unlocked the screen during the lockout and the lock was
\* requested again in a later pass
C31_Witness ==
    /\ Enforcing
    /\ BeforeDeadline
    /\ lock_run[1].unlocks >= 1
    /\ lock_run[1].unlocked_at > 0
    /\ ~lock_run[1].pending
    /\ lock_run[1].observed = "unlocked"
    /\ "lock" \in lock_run[1].did

----------------------------------------------------------------------------
(* The end of a run *)

\* start() would be accepted (line 49) and the phase is IDLE
BackToIdle ==
    /\ lock_run # <<>>
    /\ ~lock_run[1].running
    /\ lock_run[1].state = "IDLE"

\* C32: every started run returns to IDLE with the running flag cleared,
\* whether the delay and the duration elapse, stop() is called or a
\* collaborator raises inside the routine, and stays so: a new start() is
\* accepted
C32_ReturnsToIdle == <>[]BackToIdle

\* a run that ended because a collaborator raised is back to IDLE
C32_Witness ==
    /\ BackToIdle
    /\ lock_run[1].raised
    /\ lock_run[1].pc = "dead"

----------------------------------------------------------------------------
(* The start of a scheduled Session *)

\* the schedule processing of a tick in which the daemon is idle and
\* _process_commands returned no manager
IdleScheduleCheck ==
    /\ pc = "sched"
    /\ pc' = "publish"
    /\ IsIdle(current_manager, managers)
    /\ new_manager = 0

\* listDue on the store as that tick reloaded it, in the order of the store
ListDue == Candidates(SelectSeq(sm_schedules', LAMBDA sch : IsCandidate(sch, now)), now)

Delays(cands) == {cands[j][2] : j \in 1..Len(cands)}
Smallest(S) == CHOOSE d \in S : \A other \in S : d <= other

\* the step made and started a manager
SessionStarted == Len(managers') = Len(managers) + 1

\* the manager the step made is bound and runs candidate c
StartedFor(c) ==
    LET m == managers'[Len(managers')] IN
    /\ current_manager' = Len(managers')
    /\ active_sched_id' = Str(c[1].id)
    /\ m.initial_delay_seconds = c[2]
    /\ m.blocked_apps = c[1].blocked_apps
    /\ m.block_only = c[1].block_only
    /\ m.running

\* C33: in a tick where the daemon is idle and no start_instant command was
\* consumed, a Session is started for a schedule if and only if listDue is
\* not empty and its smallest delay is below lead minutes * 60 + 30 seconds;
\* the Session is bound to a schedule with that smallest delay and has its
\* delay, blocked apps and block-only flag
C33_StartsNearestDue ==
    [][IdleScheduleCheck =>
          /\ SessionStarted <=>
                (/\ ListDue # <<>>
                 /\ Smallest(Delays(ListDue)) < notify_lead_minutes * 60 + 30)
          /\ SessionStarted =>
                \E j \in 1..Len(ListDue) :
                   /\ ListDue[j][2] = Smallest(Delays(ListDue))
                   /\ StartedFor(ListDue[j])]_vars

\* two schedules are due and the Session of the nearer one, B, was started
\* in this tick
C33_Witness ==
    /\ pc = "publish"
    /\ tick_cmd = "None"
    /\ active_sched_id = "B"
    /\ current_manager = Len(managers)
    /\ threads[managers[current_manager].thread].pc = "wait_init"
    /\ Len(check_schedules(sm_schedules, now)) = 2
    /\ check_schedules(sm_schedules, now)[2][2] > 0

----------------------------------------------------------------------------
(* The idle transition *)

\* the schedule processing of a tick that finds the daemon idle
IdleTransition ==
    /\ pc = "sched"
    /\ pc' = "publish"
    /\ IsIdle(current_manager, managers)

\* the binding names a schedule of the store that is not persistent
BoundOneTime ==
    /\ active_sched_id \notin {"None", "instant"}
    /\ \E j \in 1..Len(sm_schedules) :
          Str(sm_schedules[j].id) = active_sched_id /\ ~sm_schedules[j].persist

WithoutBound == SelectSeq(sm_schedules, LAMBDA sch : Str(sch.id) # active_sched_id)

\* after the step nothing is bound, or a Session started or handed over in
\* this tick is
BindingCleared ==
    \/ active_sched_id' = "None" /\ current_manager' = 0
    \/ current_manager' # 0 /\ current_manager' \in {new_manager, Len(managers) + 1}

\* C34: the idle transition removes from the store exactly the schedule bound
\* to the Session that became idle, and only when it is not persistent;
\* otherwise (persistent schedule, instant Session, nothing bound) the store
\* and its file are left as they were; the binding is cleared in every case
C34_RemovesOnlyBoundOneTime ==
    [][IdleTransition =>
          /\ sm_schedules' = IF BoundOneTime THEN WithoutBound ELSE sm_schedules
          /\ ~BoundOneTime => schedules_file' = schedules_file
          /\ active_sched_id # "None" => BindingCleared]_vars

\* the Session of the persistent schedule A ran to its end; the idle
\* transition after it has left A and B in the store
C34_Witness ==
    /\ pc = "publish"
    /\ HasId(sm_schedules, "A")
    /\ HasId(schedules_file, "A")
    /\ HasId(sm_schedules, "B")
    /\ current_manager # Len(managers)
    /\ \E i \in 1..Len(managers) :
          /\ managers[i].start_notification = StartNotification(SchedA)
          /\ managers[i].state = "IDLE"
          /\ ~managers[i].stop_event
          /\ InSeq("finished", threads[managers[i].thread].sent)

----------------------------------------------------------------------------
(* The skip of a stopped schedule *)

\* the end of the daemon's handling of a stop_lockout command
StopHandled == pc \in {"stop_finish", "stop_skip"} /\ pc' # pc

\* schedule j of the store gets a skip date in this step
GetsSkipDate(j) == sm_schedules'[j].skipped_dates # sm_schedules[j].skipped_dates

\* C35: the only schedule to which the handling of a stop_lockout command adds
\* today's date is the schedule bound to the Session that was stopped; a
\* command naming another schedule, or arriving while an instant Session or
\* no Session is bound, adds no skip date
C35_SkipsOnlyStopped ==
    [][StopHandled =>
          \A j \in 1..Len(sm_schedules) :
             GetsSkipDate(j) =>
                /\ current_manager # 0
                /\ Str(sm_schedules[j].id) = active_sched_id]_vars

----------------------------------------------------------------------------
(* One activation per window *)

\* the Session of manager i, started for schedule sch, has completed without
\* a stop, and it ended after the window of sch that is open now began
CompletedInOpenWindow(i, sch) ==
    LET r == calculate_from_range(sch.start_time, sch.end_time, now) IN
    /\ managers[i].start_notification = StartNotification(sch)
    /\ managers[i].state = "IDLE"
    /\ ~managers[i].stop_event
    /\ r[1] = 0
    /\ managers[i].target_end_time > now - (r[3] - r[2])

\* C36: the daemon starts no Session for a persistent schedule while the
\* window in which a Session bound to it has already completed normally is
\* still open, also when that Session's duration was clamped
C36_OncePerWindow ==
    [][StartsSchedule =>
          \A j \in 1..Len(sm_schedules') :
             (sm_schedules'[j].persist
                 /\ Str(sm_schedules'[j].id) = active_sched_id')
                => \A i \in 1..Len(managers) :
                      ~CompletedInOpenWindow(i, sm_schedules'[j])]_vars

\* the tick ends and the loop is back at line 85
TickEnds == pc # "tick" /\ pc' = "tick"

\* the tick was short-circuited by a stop command (lines 87-107)
StopShortCircuit == pc \in {"stop_finish", "stop_skip"}

\* line 170 observes the bound Session: the observation that decides whether
\* active_info stays None
SnapshotObserved == pc = "publish" /\ pc' # pc

\* no Session is bound, or the bound Session is IDLE
NothingActive ==
    current_manager = 0 \/ managers[current_manager].state = "IDLE"

\* C37: a tick that no stop command short-circuits ends only by publishing a
\* status snapshot, after that tick's command and schedule processing; when the
\* snapshot observes the bound Session, active_lockout is published as null if
\* no Session is bound or the bound Session is IDLE, and as non-null otherwise.
C37_SnapshotAfterProcessing ==
    [][/\ (TickEnds /\ ~StopShortCircuit) => pc \in {"publish", "status"}
       /\ pc' = "publish" /\ pc # pc' => pc = "sched"
       /\ SnapshotObserved =>
             IF NothingActive
             THEN pc' = "tick" /\ published' = <<>>
             ELSE pc' = "status"
       /\ (pc = "status" /\ pc' # pc) =>
             /\ pc' = "tick"
             /\ published' # <<>>
             /\ published'[1].schedule_id =
                   (IF active_sched_id = "instant" THEN "None" ELSE active_sched_id)]_vars

\* a tick has ended by publishing the LOCKED Session of the bound schedule
C37_Witness ==
    /\ pc = "tick"
    /\ published # <<>>
    /\ published[1].source = "schedule"
    /\ current_manager # 0
    /\ managers[current_manager].state = "LOCKED"
    /\ published[1].current_phase = "LOCKED"

\* C38: whenever the published status has a non-null active_lockout, its
\* current_phase is WAITING or LOCKED, never IDLE, however the status reads of
\* the daemon loop interleave with the routine of the Session finishing.
C38_PublishedPhaseActive ==
    published # <<>> => published[1].current_phase \in {"WAITING", "LOCKED"}

\* now's time of day lies in the part after midnight of an overnight window
AfterMidnightInside == CallEnd <= CallStart /\ CallNowOfDay < 2 * CallEnd

\* now lies inside the window: between start and end of now's date, or in
\* the part after midnight of an overnight window
InsideWindow ==
    \/ 2 * CallStart <= CallNowOfDay /\ CallNowOfDay < 2 * CallEndAdjusted
    \/ AfterMidnightInside

\* C39: whenever now lies inside the window, calculate_from_range returns
\* delay = 0; for an overnight window (end <= start as times of day) with
\* now's time of day before end, it returns delay = 0 and remaining =
\* max(1, end - now in whole seconds).
C39_InsideOvernight ==
    /\ (CallDone /\ InsideWindow) => range_result[1] = 0
    /\ (CallDone /\ AfterMidnightInside)
          => \/ /\ range_result[2] >= 1
                /\ IsWholeSecondsOf(range_result[2], 2 * CallEnd - CallNowOfDay)
             \/ /\ range_result[2] = 1
                /\ 2 * CallEnd - CallNowOfDay < 2

\* a call of check_schedules returns
ListDueReturns ==
    /\ store_call' # store_call
    /\ store_call' # <<>>
    /\ store_call'[1].op = "check"

\* the schedule's start_time or end_time cannot be parsed
Malformed(sch) == ~RangeParses(sch.start_time, sch.end_time)

\* the entry check_schedules owes to a schedule whose times parse
DueEntry(sch) ==
    LET r == calculate_from_range_at(sch.start_time, sch.end_time, 2 * now)
    IN  <<sch, r[1], r[2], r[3]>>

\* C40: check_schedules returns a list although a stored schedule has a
\* start_time or end_time that cannot be parsed; that schedule is in no entry
\* of the list, and every other enabled schedule that is not skipped today is
\* in it with its delay, remaining and total.
C40_MalformedLeftOut ==
    [][ListDueReturns
       => LET result == store_call'[1].result
          IN  \A j \in 1..Len(sm_schedules) :
                 LET sch == sm_schedules[j] IN
                 /\ Malformed(sch)
                       => \A k \in 1..Len(result) : result[k][1] # sch
                 /\ (/\ ~Malformed(sch)
                     /\ sch.enabled
                     /\ ~InSeq(Today(now), sch.skipped_dates))
                       => \E k \in 1..Len(result) : result[k] = DueEntry(sch)]_vars

\* the store holds a schedule with a malformed start_time and a well-formed
\* one, and check_schedules has returned the well-formed one alone
C40_Witness ==
    /\ LastCall("check")
    /\ store_call[1].before = sm_schedules
    /\ \E j \in 1..Len(sm_schedules) :
          /\ Malformed(sm_schedules[j])
          /\ sm_schedules[j].enabled
          /\ sm_schedules[j].skipped_dates = <<>>
    /\ Len(store_call[1].result) = 1
    /\ ~Malformed(store_call[1].result[1][1])
    /\ store_call[1].result[1][3] = 1800

====
